---- MODULE Spec2Model ----
(***************************************************************************)
(* Model of the invest-pilot MCP server: the modular tool handlers         *)
(* (src/src/brokers/alpaca/tools/*.py) behind the main.py wrappers, the    *)
(* AlpacaClient gateway (src/src/brokers/alpaca/client.py), the           *)
(* configuration loader (src/src/config/settings.py) and the legacy       *)
(* single-file server (src/alpaca_mcp_server.py).                          *)
(*                                                                         *)
(* Python values are tagged records (Num, Str, None, Absent) so that       *)
(* dict lookups, truthiness and "is None" tests are modelled as Python     *)
(* evaluates them.  Strings are sequences of one-character strings so      *)
(* that lower()/upper() are computed character by character.  Decimal      *)
(* numbers are integers in units of 1/100.                                 *)
(*                                                                         *)
(* Tool arguments are drawn from the types the tool signatures in          *)
(* src/src/main.py declare (str / float / bool), plus None and a missing   *)
(* key.  The brokerage SDK (alpaca-py) is an external collaborator: its    *)
(* calls return or raise as chosen by the environment, and its request     *)
(* models reject a None for a required field with a pydantic               *)
(* ValidationError, which is a ValueError.                                 *)
(*                                                                         *)
(* Spec is the serving process: the tools invoked through main.py, through *)
(* their handlers or through the legacy server, and the AlpacaClient       *)
(* methods called directly (GatewayCall).  ConfigSpec is the configuration *)
(* loader alone: load_alpaca_config() called once in any environment of    *)
(* ConfigEnvs.  LoopSpec is main.py serving several invocations at once   *)
(* on its asyncio event loop: a step runs one wrapper coroutine from one   *)
(* await to the next.                                                      *)
(***************************************************************************)
EXTENDS Integers, Sequences, FiniteSets, TLC

VARIABLES
    env,        \* the process environment: variable name -> value
    phase,      \* "off" | "serving" | "exited"
    entry,      \* "none" | "main" | "legacy": which entry point was started
    client,     \* main.py's global _alpaca_client: "none" | "ready"
    pc,         \* "idle" | "done": a tool invocation has produced its outcome
    inv,        \* the last tool invocation: tool, arguments, calls, response
    gw,         \* the last direct call of an AlpacaClient method: its outcome
    cfg,        \* the outcome of load_alpaca_config() (the client's config)
    loop        \* the event loop: the invocations in flight and their history

vars == <<env, phase, entry, client, pc, inv, gw, cfg, loop>>

\* ------------------------------------------------------------------ values

Num(n) == [t |-> "num", n |-> n, s |-> <<>>]
Str(s) == [t |-> "str", n |-> 0, s |-> s]
Bool(b) == [t |-> "bool", n |-> IF b THEN 1 ELSE 0, s |-> <<>>]
None == [t |-> "none", n |-> 0, s |-> <<>>]
Absent == [t |-> "absent", n |-> 0, s |-> <<>>]

\* Python truthiness of a value (bool(v)).
Truthy(v) ==
    CASE v.t = "num" -> v.n # 0
      [] v.t = "bool" -> v.n # 0
      [] v.t = "str" -> v.s # <<>>
      [] OTHER -> FALSE

LowerCase == <<"a","b","c","d","e","f","g","h","i","j","k","l","m",
               "n","o","p","q","r","s","t","u","v","w","x","y","z">>
UpperCase == <<"A","B","C","D","E","F","G","H","I","J","K","L","M",
               "N","O","P","Q","R","S","T","U","V","W","X","Y","Z">>

LowerChar(c) ==
    IF \E i \in DOMAIN UpperCase : UpperCase[i] = c
    THEN LowerCase[CHOOSE i \in DOMAIN UpperCase : UpperCase[i] = c]
    ELSE c

UpperChar(c) ==
    IF \E i \in DOMAIN LowerCase : LowerCase[i] = c
    THEN UpperCase[CHOOSE i \in DOMAIN LowerCase : LowerCase[i] = c]
    ELSE c

\* str.lower() / str.upper()
Lower(s) == [i \in DOMAIN s |-> LowerChar(s[i])]
Upper(s) == [i \in DOMAIN s |-> UpperChar(s[i])]

\* ------------------------------------------------------------- exceptions

NoExc == [type |-> "none", msg |-> <<>>]
Exc(type, msg) == [type |-> type, msg |-> msg]

\* Exception classes an "except ValueError" clause catches: ValueError and
\* pydantic's ValidationError, its subclass.
ValueErrorTypes == {"ValueError", "ValidationError"}

\* The outcome of evaluating an expression: a value or a raised exception.
Val(v) == [exc |-> NoExc, val |-> v]
Raised(e) == [exc |-> e, val |-> None]

\* arguments[key]: KeyError when the key is missing.
Item(a, key) ==
    IF a[key] = Absent THEN Raised(Exc("KeyError", <<key>>)) ELSE Val(a[key])

\* arguments.get(key, default): the default only when the key is missing.
Get(a, key, default) == IF a[key] = Absent THEN default ELSE a[key]

\* A faulty lower() that compares the text in the caller's letter case.
\* C30 fails with it.
StrLower_AsGiven(v) ==
    IF v.t = "str" THEN Val(v)
    ELSE Raised(Exc("AttributeError", <<"lower">>))

\* v.lower() / v.upper() on an argument value: AttributeError unless a str.
StrLower(v) ==
    IF v.t = "str" THEN Val(Str(Lower(v.s)))
    ELSE Raised(Exc("AttributeError", <<"lower">>))

\* A faulty upper() that hands the symbol on in the caller's letter case.
\* C24 fails with it.
StrUpper_AsGiven(v) ==
    IF v.t = "str" THEN Val(v)
    ELSE Raised(Exc("AttributeError", <<"upper">>))

StrUpper(v) ==
    IF v.t = "str" THEN Val(Str(Upper(v.s)))
    ELSE Raised(Exc("AttributeError", <<"upper">>))

\* -------------------------------------------------------------- strings

S_buy == <<"b","u","y">>
S_sell == <<"s","e","l","l">>
S_market == <<"m","a","r","k","e","t">>
S_limit == <<"l","i","m","i","t">>
S_price == <<"p","r","i","c","e">>
S_percent == <<"p","e","r","c","e","n","t">>
S_gtc == <<"g","t","c">>
S_GTC == <<"G","T","C">>
S_day == <<"d","a","y">>
S_all == <<"a","l","l">>
S_open == <<"o","p","e","n">>

\* A faulty get_order_side, mapping as AlpacaClient.submit_market_order maps
\* its side: every string other than 'buy' is a sell.  C1 fails with it.
get_order_side_AnythingElseSells(side) ==
    LET l == StrLower(side) IN
    IF l.exc # NoExc THEN Raised(l.exc)
    ELSE IF l.val.s = S_buy THEN Val(Str(<<"B","U","Y">>))
    ELSE Val(Str(<<"S","E","L","L">>))

\* core/utils.py get_order_side: the OrderSide for 'buy'/'sell' in any
\* letter case, ValueError for any other string.
get_order_side(side) ==
    LET l == StrLower(side) IN
    IF l.exc # NoExc THEN Raised(l.exc)
    ELSE IF l.val.s = S_buy THEN Val(Str(<<"B","U","Y">>))
    ELSE IF l.val.s = S_sell THEN Val(Str(<<"S","E","L","L">>))
    ELSE Raised(Exc("ValueError", <<"Invalid order side: ">> \o side.s))

\* core/utils.py format_currency: f"${amount:.2f}".  None has no such
\* format (TypeError); a str rejects the format code 'f' (ValueError).
format_currency(amount) ==
    CASE amount.t = "num" -> Val(Str(<<"$">>))
      [] amount.t = "str" -> Raised(Exc("ValueError", <<"Unknown format code">>))
      [] OTHER -> Raised(Exc("TypeError", <<"unsupported format string">>))

\* First exception raised by a sequence of evaluations, in program order.
RECURSIVE FirstExc(_)
FirstExc(rs) ==
    IF rs = <<>> THEN NoExc
    ELSE IF Head(rs).exc # NoExc THEN Head(rs).exc
    ELSE FirstExc(Tail(rs))

\* r, then F applied to its value unless r raised.
Bind(r, F(_)) == IF r.exc # NoExc THEN Raised(r.exc) ELSE F(r.val)

\* ------------------------------------------------- brokerage SDK requests

\* An order request as handed to TradingClient.submit_order.  A leg or
\* field that the request does not carry is Absent.
OrderRequest(kind, symbol, qty, side, tif, class) ==
    [kind |-> kind, symbol |-> symbol, qty |-> qty, side |-> side,
     tif |-> tif, class |-> class, limit_price |-> Absent,
     tp_limit |-> Absent, sl_stop |-> Absent, sl_limit |-> Absent,
     trail_price |-> Absent, trail_percent |-> Absent]

NoReq == OrderRequest("none", Absent, Absent, Absent, "", "")

ValidationError(what) == Exc("ValidationError", <<what>>)

\* A take-profit or stop-loss leg; NoLeg when the order has none.
Leg(price, limit) == [on |-> TRUE, price |-> price, limit |-> limit]
NoLeg == [on |-> FALSE, price |-> Absent, limit |-> Absent]

\* TakeProfitRequest(limit_price=...): limit_price is a required float.
TakeProfitRequest(limit_price) ==
    IF limit_price.t = "none" THEN Raised(ValidationError("TakeProfitRequest"))
    ELSE Val(Leg(limit_price, Absent))

\* StopLossRequest(stop_price=..., limit_price=...): stop_price is a
\* required float, limit_price is optional (None when not given).
StopLossRequest(stop_price, limit_price) ==
    IF stop_price.t = "none" THEN Raised(ValidationError("StopLossRequest"))
    ELSE Val(Leg(stop_price, limit_price))

\* Faulty copy of the legs: the stop-loss leg is left out of the request.
\* C11 fails with it.
WithLegs_NoStopLoss(req, take_profit, stop_loss) ==
    [req EXCEPT !.tp_limit = take_profit.price]

\* The legs of a composite order copied into the request.
WithLegs(req, take_profit, stop_loss) ==
    [req EXCEPT !.tp_limit = take_profit.price,
                !.sl_stop = stop_loss.price,
                !.sl_limit = stop_loss.limit]

\* MarketOrderRequest(...): the SDK requires qty (or notional, never given here).
MarketOrderRequest(symbol, qty, side, tif, class, take_profit, stop_loss) ==
    IF qty.t = "none" THEN Raised(ValidationError("MarketOrderRequest"))
    ELSE Val(WithLegs(OrderRequest("market", symbol, qty, side, tif, class),
                      take_profit, stop_loss))

\* LimitOrderRequest(...): the SDK requires qty and limit_price.
LimitOrderRequest(symbol, qty, side, limit_price, tif, class, take_profit, stop_loss) ==
    IF qty.t = "none" \/ limit_price.t = "none"
    THEN Raised(ValidationError("LimitOrderRequest"))
    ELSE Val([WithLegs(OrderRequest("limit", symbol, qty, side, tif, class),
                       take_profit, stop_loss)
                 EXCEPT !.limit_price = limit_price])

\* TrailingStopOrderRequest(...): the SDK requires qty and one trail field.
TrailingStopOrderRequest(symbol, qty, side, tif, trail_price, trail_percent) ==
    IF qty.t = "none"
       \/ (trail_price.t \in {"none", "absent"} /\ trail_percent.t \in {"none", "absent"})
    THEN Raised(ValidationError("TrailingStopOrderRequest"))
    ELSE Val([OrderRequest("trailing_stop", symbol, qty, side, tif, "simple")
                 EXCEPT !.trail_price = trail_price,
                        !.trail_percent = trail_percent])

\* ClosePositionRequest(percentage=...): carries the value it is given.
ClosePositionRequest(percentage) == [percentage |-> percentage]

\* ------------------------------------------------------ AlpacaClient gateway

\* "needle in haystack" for strings.
Contains(haystack, needle) ==
    \E i \in 0..(Len(haystack) - Len(needle)) :
        SubSeq(haystack, i + 1, i + Len(needle)) = needle

\* The text the brokerage answers for a symbol without a position, as
\* AlpacaClient.get_position expects it (client.py: "position does not exist").
E_position_does_not_exist == <<"p","o","s","i","t","i","o","n"," ","d","o","e","s"," ","n","o","t"," ","e","x","i","s","t">>

\* One call from this layer to the brokerage SDK, as the brokerage sees it.
Call(op, symbol, req, pct, ok) ==
    [op |-> op, symbol |-> symbol, req |-> req, pct |-> pct, ok |-> ok]

\* The outcome the environment gives one SDK call: it returns, or raises
\* an exception whose text (str(e)) is err; api tells whether that exception
\* is the SDK's own APIError (an HTTP error reply) or any other exception.
Sdk(ok, api, err) == [ok |-> ok, api |-> api, err |-> err]

\* The exception a failed SDK call raised: the SDK's own APIError (an HTTP
\* error reply) or any other exception, with text sdk.err.
SdkException(sdk) ==
    IF sdk.ok THEN NoExc
    ELSE Exc(IF sdk.api THEN "alpaca.APIError" ELSE "Exception", sdk.err)

\* A gateway method's result: the SDK's result, or one APIError(message,
\* "alpaca", e) wrapping the SDK's exception e (its api_error); and the SDK
\* call that was made.
Gateway(call, sdk, what, result) ==
    [exc |-> IF sdk.ok THEN NoExc ELSE Exc("APIError", <<what>> \o sdk.err),
     val |-> result, call |-> call, api_error |-> SdkException(sdk)]

\* AlpacaClient.submit_order
client_submit_order(order_request, sdk) ==
    Gateway(Call("submit_order", order_request.symbol, order_request, Absent, sdk.ok),
            sdk, "Failed to submit order: ", order_request)

\* AlpacaClient.cancel_all_orders: the list of cancel statuses (its length).
client_cancel_all_orders(sdk, n) ==
    Gateway(Call("cancel_orders", Absent, NoReq, Absent, sdk.ok),
            sdk, "Failed to cancel all orders: ", n)

\* AlpacaClient.get_all_positions
client_get_all_positions(sdk, positions) ==
    Gateway(Call("get_all_positions", Absent, NoReq, Absent, sdk.ok),
            sdk, "Failed to get positions: ", positions)

\* AlpacaClient.close_position
client_close_position(symbol, close_request, sdk) ==
    Gateway(Call("close_position", symbol, NoReq, close_request.percentage, sdk.ok),
            sdk, "Failed to close position: ", close_request)

\* AlpacaClient.get_orders
client_get_orders(sdk, orders) ==
    Gateway(Call("get_orders", Absent, NoReq, Absent, sdk.ok),
            sdk, "Failed to get orders: ", orders)

\* AlpacaClient.list_orders: the status string is mapped to the enum and
\* self.get_orders called, all under the method's own try: an APIError
\* raised by get_orders is caught and wrapped in a second APIError.
client_list_orders(status, limit, sdk, orders) ==
    LET inner == client_get_orders(sdk, orders) IN
    IF inner.exc = NoExc THEN inner
    ELSE [inner EXCEPT !.exc = Exc("APIError", <<"Failed to list orders: ">> \o inner.exc.msg),
                       !.api_error = inner.exc]

\* AlpacaClient.submit_market_order: the request is built without a
\* time_in_force (built: the SDK's constructor accepts that) and handed to
\* self.submit_order, all under the method's own try: a constructor error
\* or the APIError raised by submit_order is wrapped in an APIError.
client_submit_market_order(symbol, side, quantity, built, sdk) ==
    LET what == "Failed to submit market order: "
        order_side == IF Lower(side.s) = S_buy THEN Str(<<"B","U","Y">>)
                      ELSE Str(<<"S","E","L","L">>)
        order_request == MarketOrderRequest(symbol, quantity, order_side, "unset", "simple",
                                            NoLeg, NoLeg)
        rejected == IF built THEN order_request.exc ELSE ValidationError("MarketOrderRequest")
        inner == client_submit_order(order_request.val, sdk)
    IN  IF rejected # NoExc
        THEN [exc |-> Exc("APIError", <<what>> \o rejected.msg), val |-> NoReq,
              call |-> Call("none", symbol, NoReq, Absent, FALSE), api_error |-> rejected]
        ELSE IF inner.exc = NoExc THEN inner
        ELSE [inner EXCEPT !.exc = Exc("APIError", <<what>> \o inner.exc.msg),
                           !.api_error = inner.exc]

\* AlpacaClient.get_position: get_open_position(symbol); an exception whose
\* lowercase text contains "position does not exist" is answered by
\* returning None, any other by an APIError.
client_get_position(symbol, sdk, position) ==
    LET got == Gateway(Call("get_open_position", symbol, NoReq, Absent, sdk.ok),
                       sdk, "Failed to get position: ", position)
    IN  IF ~sdk.ok /\ Contains(Lower(sdk.err), E_position_does_not_exist)
        THEN [got EXCEPT !.exc = NoExc, !.val = None, !.api_error = NoExc]
        ELSE got

\* ------------------------------------------------------------- responses

Response(head, detail) == [head |-> head, detail |-> detail]
NoResponse == Response("", <<>>)

\* What one handler invocation did: the brokerage calls it made, the one
\* text payload it returned, or the exception it let escape.
Returned(calls, resp) == [calls |-> calls, resp |-> resp, raised |-> NoExc]
Escaped(calls, e) == [calls |-> calls, resp |-> NoResponse, raised |-> e]

H_invalid == "Invalid parameters: "
H_unexpected == "Unexpected error: "

\* Faulty except clauses, merged as the legacy server merges them
\* ("except (APIError, ValueError)"): a brokerage failure is reported as
\* invalid parameters.  C10 fails with them.
ExceptValueApiAny_Merged(e, calls, apiHead) ==
    IF e.type \in ValueErrorTypes \cup {"APIError"}
    THEN Returned(calls, Response(H_invalid, e.msg))
    ELSE Returned(calls, Response(H_unexpected, e.msg))

\* The except clauses of an order-placement handler:
\* ValueError, then APIError, then Exception.
ExceptValueApiAny(e, calls, apiHead) ==
    IF e.type \in ValueErrorTypes THEN Returned(calls, Response(H_invalid, e.msg))
    ELSE IF e.type = "APIError" THEN Returned(calls, Response(apiHead, e.msg))
    ELSE Returned(calls, Response(H_unexpected, e.msg))

\* Faulty except clauses without the final "except Exception": anything
\* but an APIError escapes the handler.  C8 fails with them.
ExceptApiAny_NoCatchAll(e, calls, apiHead) ==
    IF e.type = "APIError" THEN Returned(calls, Response(apiHead, e.msg))
    ELSE Escaped(calls, e)

\* The except clauses of the other handlers: APIError, then Exception.
ExceptApiAny(e, calls, apiHead) ==
    IF e.type = "APIError" THEN Returned(calls, Response(apiHead, e.msg))
    ELSE Returned(calls, Response(H_unexpected, e.msg))

\* ------------------------------------------- order handlers (tools/orders.py)

TIF_DAY == "DAY"
TIF_GTC == "GTC"

\* TimeInForce.GTC if time_in_force_str == "GTC" else TimeInForce.DAY
ConvertTimeInForce(time_in_force_str) ==
    IF time_in_force_str.s = S_GTC THEN TIF_GTC ELSE TIF_DAY

\* handle_place_market_order(client, arguments); sdk is the outcome the
\* brokerage gives submit_order if it is called.
handle_place_market_order(a, sdk) ==
    LET head == "Error placing market order: "
        symbol == Bind(Item(a, "symbol"), StrUpper)
        side == Bind(Item(a, "side"), get_order_side)
        quantity == Item(a, "quantity")
        pre == FirstExc(<<symbol, side, quantity>>)
        req == MarketOrderRequest(symbol.val, quantity.val, side.val,
                                  TIF_DAY, "simple", NoLeg, NoLeg)
        sub == client_submit_order(req.val, sdk)
    IN  IF pre # NoExc THEN ExceptValueApiAny(pre, <<>>, head)
        ELSE IF req.exc # NoExc THEN ExceptValueApiAny(req.exc, <<>>, head)
        ELSE IF sub.exc # NoExc THEN ExceptValueApiAny(sub.exc, <<sub.call>>, head)
        ELSE Returned(<<sub.call>>, Response("Market order placed successfully:", <<>>))

\* handle_place_limit_order(client, arguments)
handle_place_limit_order(a, sdk) ==
    LET head == "Error placing limit order: "
        symbol == Bind(Item(a, "symbol"), StrUpper)
        side == Bind(Item(a, "side"), get_order_side)
        quantity == Item(a, "quantity")
        limit_price == Item(a, "limit_price")
        pre == FirstExc(<<symbol, side, quantity, limit_price>>)
        req == LimitOrderRequest(symbol.val, quantity.val, side.val, limit_price.val,
                                 TIF_DAY, "simple", NoLeg, NoLeg)
        sub == client_submit_order(req.val, sdk)
        fmt == format_currency(sub.val.limit_price)
    IN  IF pre # NoExc THEN ExceptValueApiAny(pre, <<>>, head)
        ELSE IF req.exc # NoExc THEN ExceptValueApiAny(req.exc, <<>>, head)
        ELSE IF sub.exc # NoExc THEN ExceptValueApiAny(sub.exc, <<sub.call>>, head)
        ELSE IF fmt.exc # NoExc THEN ExceptValueApiAny(fmt.exc, <<sub.call>>, head)
        ELSE Returned(<<sub.call>>, Response("Limit order placed successfully:", <<>>))

\* "if x: ... format_currency(x)": nothing is formatted for a falsy x.
FormatIfTruthy(x) == IF Truthy(x) THEN format_currency(x) ELSE Val(None)

\* handle_place_bracket_order(client, arguments)
handle_place_bracket_order(a, sdk) ==
    LET head == "Error placing bracket order: "
        symbol == Bind(Item(a, "symbol"), StrUpper)
        side == Bind(Item(a, "side"), get_order_side)
        quantity == Item(a, "quantity")
        order_type == StrLower(Get(a, "order_type", Str(S_market)))
        limit_price == Get(a, "limit_price", None)
        take_profit_price == Item(a, "take_profit_price")
        stop_loss_price == Item(a, "stop_loss_price")
        stop_loss_limit_price == Get(a, "stop_loss_limit_price", None)
        time_in_force_str == StrUpper(Get(a, "time_in_force", Str(S_gtc)))
        pre == FirstExc(<<symbol, side, quantity, order_type, take_profit_price,
                          stop_loss_price, time_in_force_str>>)
        isLimit == order_type.val.s = S_limit
        time_in_force == ConvertTimeInForce(time_in_force_str.val)
        take_profit == TakeProfitRequest(take_profit_price.val)
        stop_loss == IF Truthy(stop_loss_limit_price)
                     THEN StopLossRequest(stop_loss_price.val, stop_loss_limit_price)
                     ELSE StopLossRequest(stop_loss_price.val, None)
        req == IF isLimit
               THEN LimitOrderRequest(symbol.val, quantity.val, side.val, limit_price,
                                      time_in_force, "bracket",
                                      take_profit.val, stop_loss.val)
               ELSE MarketOrderRequest(symbol.val, quantity.val, side.val,
                                       time_in_force, "bracket",
                                       take_profit.val, stop_loss.val)
        build == IF take_profit.exc # NoExc THEN take_profit.exc
                 ELSE IF stop_loss.exc # NoExc THEN stop_loss.exc
                 ELSE req.exc
        sub == client_submit_order(req.val, sdk)
        fmt == FirstExc(<<format_currency(take_profit_price.val),
                          format_currency(stop_loss_price.val),
                          FormatIfTruthy(limit_price),
                          FormatIfTruthy(stop_loss_limit_price)>>)
    IN  IF pre # NoExc THEN ExceptValueApiAny(pre, <<>>, head)
        ELSE IF isLimit /\ ~Truthy(limit_price)
        THEN ExceptValueApiAny(Exc("ValueError", <<"limit_price is required for limit orders">>),
                               <<>>, head)
        ELSE IF build # NoExc THEN ExceptValueApiAny(build, <<>>, head)
        ELSE IF sub.exc # NoExc THEN ExceptValueApiAny(sub.exc, <<sub.call>>, head)
        ELSE IF fmt # NoExc THEN ExceptValueApiAny(fmt, <<sub.call>>, head)
        ELSE Returned(<<sub.call>>, Response("Bracket order placed successfully:", <<>>))

\* handle_place_oco_order(client, arguments): no "except ValueError" clause.
handle_place_oco_order(a, sdk) ==
    LET head == "Error placing OCO order: "
        symbol == Bind(Item(a, "symbol"), StrUpper)
        quantity == Item(a, "quantity")
        take_profit_price == Item(a, "take_profit_price")
        stop_loss_price == Item(a, "stop_loss_price")
        stop_loss_limit_price == Get(a, "stop_loss_limit_price", None)
        time_in_force_str == StrUpper(Get(a, "time_in_force", Str(S_gtc)))
        pre == FirstExc(<<symbol, quantity, take_profit_price, stop_loss_price,
                          time_in_force_str>>)
        time_in_force == ConvertTimeInForce(time_in_force_str.val)
        take_profit == TakeProfitRequest(take_profit_price.val)
        stop_loss == IF Truthy(stop_loss_limit_price)
                     THEN StopLossRequest(stop_loss_price.val, stop_loss_limit_price)
                     ELSE StopLossRequest(stop_loss_price.val, None)
        req == LimitOrderRequest(symbol.val, quantity.val, Str(<<"S","E","L","L">>),
                                 take_profit_price.val, time_in_force, "oco",
                                 take_profit.val, stop_loss.val)
        build == IF take_profit.exc # NoExc THEN take_profit.exc
                 ELSE IF stop_loss.exc # NoExc THEN stop_loss.exc
                 ELSE req.exc
        sub == client_submit_order(req.val, sdk)
        fmt == FirstExc(<<format_currency(take_profit_price.val),
                          format_currency(stop_loss_price.val),
                          FormatIfTruthy(stop_loss_limit_price)>>)
    IN  IF pre # NoExc THEN ExceptApiAny(pre, <<>>, head)
        ELSE IF build # NoExc THEN ExceptApiAny(build, <<>>, head)
        ELSE IF sub.exc # NoExc THEN ExceptApiAny(sub.exc, <<sub.call>>, head)
        ELSE IF fmt # NoExc THEN ExceptApiAny(fmt, <<sub.call>>, head)
        ELSE Returned(<<sub.call>>, Response("OCO order placed successfully:", <<>>))

\* "(take_profit_price is None) ^ (stop_loss_price is None)"
ExactlyOneIsNone(x, y) == (x.t = "none") # (y.t = "none")

\* handle_place_oto_order(client, arguments)
handle_place_oto_order(a, sdk) ==
    LET head == "Error placing OTO order: "
        symbol == Bind(Item(a, "symbol"), StrUpper)
        side == Bind(Item(a, "side"), get_order_side)
        quantity == Item(a, "quantity")
        order_type == StrLower(Get(a, "order_type", Str(S_market)))
        limit_price == Get(a, "limit_price", None)
        take_profit_price == Get(a, "take_profit_price", None)
        stop_loss_price == Get(a, "stop_loss_price", None)
        stop_loss_limit_price == Get(a, "stop_loss_limit_price", None)
        time_in_force_str == StrUpper(Get(a, "time_in_force", Str(S_gtc)))
        pre == FirstExc(<<symbol, side, quantity, order_type, time_in_force_str>>)
        isLimit == order_type.val.s = S_limit
        time_in_force == ConvertTimeInForce(time_in_force_str.val)
        \* "if take_profit_price:" chooses the exit leg, by truthiness
        exit_order ==
            IF Truthy(take_profit_price) THEN TakeProfitRequest(take_profit_price)
            ELSE IF Truthy(stop_loss_limit_price)
            THEN StopLossRequest(stop_loss_price, stop_loss_limit_price)
            ELSE StopLossRequest(stop_loss_price, None)
        exit_description ==
            IF Truthy(take_profit_price) THEN <<format_currency(take_profit_price)>>
            ELSE <<format_currency(stop_loss_price),
                   FormatIfTruthy(stop_loss_limit_price)>>
        exit == FirstExc(<<exit_order>> \o exit_description)
        \* "if take_profit_price:" again, to place the leg in the request
        take_profit == IF Truthy(take_profit_price) THEN exit_order.val ELSE NoLeg
        stop_loss == IF Truthy(take_profit_price) THEN NoLeg ELSE exit_order.val
        req == IF isLimit
               THEN LimitOrderRequest(symbol.val, quantity.val, side.val, limit_price,
                                      time_in_force, "oto", take_profit, stop_loss)
               ELSE MarketOrderRequest(symbol.val, quantity.val, side.val,
                                       time_in_force, "oto", take_profit, stop_loss)
        sub == client_submit_order(req.val, sdk)
        fmt == FormatIfTruthy(limit_price)
    IN  IF pre # NoExc THEN ExceptValueApiAny(pre, <<>>, head)
        ELSE IF ~ExactlyOneIsNone(take_profit_price, stop_loss_price)
        THEN ExceptValueApiAny(
                 Exc("ValueError", <<"Must provide exactly one of take_profit_price or stop_loss_price for OTO orders">>),
                 <<>>, head)
        ELSE IF isLimit /\ ~Truthy(limit_price)
        THEN ExceptValueApiAny(Exc("ValueError", <<"limit_price is required for limit orders">>),
                               <<>>, head)
        ELSE IF exit # NoExc THEN ExceptValueApiAny(exit, <<>>, head)
        ELSE IF req.exc # NoExc THEN ExceptValueApiAny(req.exc, <<>>, head)
        ELSE IF sub.exc # NoExc THEN ExceptValueApiAny(sub.exc, <<sub.call>>, head)
        ELSE IF fmt.exc # NoExc THEN ExceptValueApiAny(fmt.exc, <<sub.call>>, head)
        ELSE Returned(<<sub.call>>, Response("OTO order placed successfully:", <<>>))

\* A faulty construction with the two trail fields exchanged.  C7 fails
\* with it.
TrailingRequestFor_Exchanged(trail_type, symbol, quantity, side, time_in_force, trail_amount) ==
    IF trail_type.s = S_price
    THEN TrailingStopOrderRequest(symbol, quantity, side, time_in_force,
                                  Absent, trail_amount)
    ELSE TrailingStopOrderRequest(symbol, quantity, side, time_in_force,
                                  trail_amount, Absent)

\* "if trail_type == "price": ...(trail_price=trail_amount)
\*  else: ...(trail_percent=trail_amount)"
TrailingRequestFor(trail_type, symbol, quantity, side, time_in_force, trail_amount) ==
    IF trail_type.s = S_price
    THEN TrailingStopOrderRequest(symbol, quantity, side, time_in_force,
                                  trail_amount, Absent)
    ELSE TrailingStopOrderRequest(symbol, quantity, side, time_in_force,
                                  Absent, trail_amount)

\* handle_place_trailing_stop_order(client, arguments)
handle_place_trailing_stop_order(a, sdk) ==
    LET head == "Error placing trailing stop order: "
        symbol == Bind(Item(a, "symbol"), StrUpper)
        side == Bind(Item(a, "side"), get_order_side)
        quantity == Item(a, "quantity")
        trail_type == Bind(Item(a, "trail_type"), StrLower)
        trail_amount == Item(a, "trail_amount")
        time_in_force_str == StrUpper(Get(a, "time_in_force", Str(S_day)))
        pre == FirstExc(<<symbol, side, quantity, trail_type, trail_amount,
                          time_in_force_str>>)
        time_in_force == ConvertTimeInForce(time_in_force_str.val)
        req == TrailingRequestFor(trail_type.val, symbol.val, quantity.val, side.val,
                                  time_in_force, trail_amount.val)
        sub == client_submit_order(req.val, sdk)
    IN  IF pre # NoExc THEN ExceptValueApiAny(pre, <<>>, head)
        ELSE IF trail_type.val.s \notin {S_price, S_percent}
        THEN ExceptValueApiAny(Exc("ValueError", <<"trail_type must be 'price' or 'percent'">>),
                               <<>>, head)
        ELSE IF req.exc # NoExc THEN ExceptValueApiAny(req.exc, <<>>, head)
        ELSE IF sub.exc # NoExc THEN ExceptValueApiAny(sub.exc, <<sub.call>>, head)
        ELSE Returned(<<sub.call>>,
                      Response("Trailing stop order placed successfully:", <<>>))

\* handle_cancel_all_orders(client, arguments); n is the number of cancel
\* statuses the brokerage returns.
handle_cancel_all_orders(a, sdk, n) ==
    LET head == "Error cancelling orders: "
        cancelled_orders == client_cancel_all_orders(sdk, n)
    IN  IF cancelled_orders.exc # NoExc
        THEN ExceptApiAny(cancelled_orders.exc, <<cancelled_orders.call>>, head)
        ELSE IF cancelled_orders.val = 0
        THEN Returned(<<cancelled_orders.call>>, Response("No orders to cancel.", <<>>))
        ELSE Returned(<<cancelled_orders.call>>,
                      Response("Successfully cancelled {n} orders:", <<>>))

\* A position as the brokerage reports it.
Position(symbol, unrealized_plpc) ==
    [found |-> TRUE, symbol |-> symbol, unrealized_plpc |-> unrealized_plpc]

\* "position = None"
NoPosition == [found |-> FALSE, symbol |-> <<>>, unrealized_plpc |-> None]

\* "for pos in positions: if pos.symbol == symbol: position = pos; break"
RECURSIVE FindPosition(_, _)
FindPosition(positions, symbol) ==
    IF positions = <<>> THEN NoPosition
    ELSE IF Head(positions).symbol = symbol THEN Head(positions)
    ELSE FindPosition(Tail(positions), symbol)

\* float(position.unrealized_plpc or 0)
PlpcOrZero(position) ==
    IF Truthy(position.unrealized_plpc) THEN position.unrealized_plpc.n ELSE 0

\* A faulty comparison, the legacy server's rule ("profit_pct >
\* profit_threshold" closes): a profit equal to the threshold is below it.
\* C4 fails with it.
BelowThreshold_OrEqual(unrealized_plpc, profit_threshold) ==
    IF profit_threshold.t # "num" THEN Raised(Exc("TypeError", <<"'<' not supported">>))
    ELSE Val(Bool(unrealized_plpc <= profit_threshold.n))

\* "unrealized_plpc < profit_threshold": TypeError unless a number.
BelowThreshold(unrealized_plpc, profit_threshold) ==
    IF profit_threshold.t # "num" THEN Raised(Exc("TypeError", <<"'<' not supported">>))
    ELSE Val(Bool(unrealized_plpc < profit_threshold.n))

\* f"{close_percentage:.2%}": TypeError unless a number.
FormatPercent(v) ==
    IF v.t = "num" THEN Val(Str(<<"%">>))
    ELSE Raised(Exc("TypeError", <<"unsupported format string">>))

DefaultProfitThreshold == 20
DefaultClosePercentage == 50

\* handle_take_partial_profit(client, arguments); positions is what
\* get_all_positions returns, sdkPos and sdkClose the outcomes of the two
\* brokerage calls.
handle_take_partial_profit(a, sdkPos, positions, sdkClose) ==
    LET head == "Error taking partial profit: "
        symbol == Bind(Item(a, "symbol"), StrUpper)
        profit_threshold == Get(a, "profit_threshold", Num(DefaultProfitThreshold))
        close_percentage == Get(a, "close_percentage", Num(DefaultClosePercentage))
        got == client_get_all_positions(sdkPos, positions)
        position == FindPosition(got.val, symbol.val.s)
        unrealized_plpc == PlpcOrZero(position)
        below == BelowThreshold(unrealized_plpc, profit_threshold)
        close_request == ClosePositionRequest(close_percentage)
        result == client_close_position(symbol.val, close_request, sdkClose)
        fmt == FormatPercent(close_percentage)
    IN  IF symbol.exc # NoExc THEN ExceptApiAny(symbol.exc, <<>>, head)
        ELSE IF got.exc # NoExc THEN ExceptApiAny(got.exc, <<got.call>>, head)
        ELSE IF ~position.found
        THEN Returned(<<got.call>>, Response("No position found for symbol ", symbol.val.s))
        ELSE IF below.exc # NoExc THEN ExceptApiAny(below.exc, <<got.call>>, head)
        ELSE IF Truthy(below.val)
        THEN Returned(<<got.call>>,
                      Response("Position does not meet profit threshold: No action taken.",
                               symbol.val.s))
        ELSE IF result.exc # NoExc
        THEN ExceptApiAny(result.exc, <<got.call, result.call>>, head)
        ELSE IF fmt.exc # NoExc
        THEN ExceptApiAny(fmt.exc, <<got.call, result.call>>, head)
        ELSE Returned(<<got.call, result.call>>,
                      Response("Partial profit taken for ", symbol.val.s))

\* A faulty close_all_positions that leaves the close request's own
\* cancel_orders flag at True whatever the caller asked.  C25 fails with it.
client_close_all_positions_FlagLeftTrue(cancel_orders, sdkCancel, sdkClose, n) ==
    LET cancel == Call("cancel_orders", Absent, NoReq, Absent, sdkCancel.ok)
        close == Call("close_all_positions", Absent, NoReq, Bool(TRUE), sdkClose.ok)
        what == "Failed to close all positions: "
    IN  IF Truthy(cancel_orders) /\ ~sdkCancel.ok
        THEN [exc |-> Exc("APIError", <<what>> \o sdkCancel.err), val |-> 0,
              calls |-> <<cancel>>]
        ELSE [exc |-> IF sdkClose.ok THEN NoExc
                      ELSE Exc("APIError", <<what>> \o sdkClose.err),
              val |-> n,
              calls |-> IF Truthy(cancel_orders) THEN <<cancel, close>> ELSE <<close>>]

\* A faulty close_all_positions that goes on to the close request after the
\* cancel request failed.  C22 fails with it.
client_close_all_positions_CloseAfterFailedCancel(cancel_orders, sdkCancel, sdkClose, n) ==
    LET cancel == Call("cancel_orders", Absent, NoReq, Absent, sdkCancel.ok)
        close == Call("close_all_positions", Absent, NoReq, cancel_orders, sdkClose.ok)
    IN  [exc |-> IF sdkClose.ok THEN NoExc
                 ELSE Exc("APIError", <<"Failed to close all positions: ">> \o sdkClose.err),
         val |-> n,
         calls |-> IF Truthy(cancel_orders) THEN <<cancel, close>> ELSE <<close>>]

\* AlpacaClient.close_all_positions(cancel_orders): cancel_orders() first
\* when cancel_orders is truthy, then close_all_positions(cancel_orders=...),
\* both under one try.
client_close_all_positions(cancel_orders, sdkCancel, sdkClose, n) ==
    LET cancel == Call("cancel_orders", Absent, NoReq, Absent, sdkCancel.ok)
        close == Call("close_all_positions", Absent, NoReq, cancel_orders, sdkClose.ok)
        what == "Failed to close all positions: "
    IN  IF Truthy(cancel_orders) /\ ~sdkCancel.ok
        THEN [exc |-> Exc("APIError", <<what>> \o sdkCancel.err), val |-> 0,
              calls |-> <<cancel>>]
        ELSE [exc |-> IF sdkClose.ok THEN NoExc
                      ELSE Exc("APIError", <<what>> \o sdkClose.err),
              val |-> n,
              calls |-> IF Truthy(cancel_orders) THEN <<cancel, close>> ELSE <<close>>]

\* handle_close_all_positions(client, arguments)
handle_close_all_positions(a, sdkCancel, sdkClose, n) ==
    LET head == "Error closing positions: "
        cancel_orders == Get(a, "cancel_orders", Bool(TRUE))
        closed_positions == client_close_all_positions(cancel_orders, sdkCancel, sdkClose, n)
    IN  IF closed_positions.exc # NoExc
        THEN ExceptApiAny(closed_positions.exc, closed_positions.calls, head)
        ELSE IF closed_positions.val = 0
        THEN Returned(closed_positions.calls, Response("No positions to close.", <<>>))
        ELSE Returned(closed_positions.calls,
                      Response("Successfully closed {n} positions:", <<>>))

\* float(v): TypeError for None.
Float(v) ==
    IF v.t = "num" THEN Val(v) ELSE Raised(Exc("TypeError", <<"float() argument">>))

\* An order as the brokerage reports it (the fields handle_get_orders reads).
OrderRecord(qty, filled_qty, limit_price) ==
    [qty |-> qty, filled_qty |-> filled_qty, limit_price |-> limit_price]

\* One entry of handle_get_orders' list: float(order.qty), and
\* "float(x) if x else None" for the optional fields.
OrderData(order) ==
    LET qty == Float(order.qty) IN
    IF qty.exc # NoExc THEN Raised(qty.exc)
    ELSE Val([qty |-> qty.val,
              filled_qty |-> IF Truthy(order.filled_qty) THEN order.filled_qty ELSE Num(0),
              limit_price |-> IF Truthy(order.limit_price) THEN order.limit_price ELSE None])

\* handle_get_orders(client, arguments)
handle_get_orders(a, sdk, orders) ==
    LET head == "Error getting orders: "
        status_str == StrLower(Get(a, "status", Str(S_all)))
        got == client_get_orders(sdk, orders)
        data == [i \in DOMAIN got.val |-> OrderData(got.val[i])]
        bad == FirstExc(data)
    IN  IF status_str.exc # NoExc THEN ExceptApiAny(status_str.exc, <<>>, head)
        ELSE IF got.exc # NoExc THEN ExceptApiAny(got.exc, <<got.call>>, head)
        ELSE IF bad # NoExc THEN ExceptApiAny(bad, <<got.call>>, head)
        ELSE Returned(<<got.call>>,
                      Response("orders", [i \in DOMAIN data |-> "order"]))

\* ----------------------------------------- account tools (tools/account.py)

\* AlpacaClient.get_account
client_get_account(sdk, account) ==
    Gateway(Call("get_account", Absent, NoReq, Absent, sdk.ok),
            sdk, "Failed to get account info: ", account)

\* The account as the brokerage reports it (a number field, or None).
Account(buying_power) == [buying_power |-> buying_power]

\* handle_get_account_info(client, arguments)
handle_get_account_info(a, sdk, account) ==
    LET head == "Error getting account information: "
        got == client_get_account(sdk, account)
        buying_power == Float(got.val.buying_power)
    IN  IF got.exc # NoExc THEN ExceptApiAny(got.exc, <<got.call>>, head)
        ELSE IF buying_power.exc # NoExc
        THEN ExceptApiAny(buying_power.exc, <<got.call>>, head)
        ELSE Returned(<<got.call>>, Response("account", <<>>))

\* handle_get_positions(client, arguments)
handle_get_positions(a, sdk, positions) ==
    LET head == "Error getting positions: "
        got == client_get_all_positions(sdk, positions)
        bad == FirstExc([i \in DOMAIN got.val |-> Float(got.val[i].unrealized_plpc)])
    IN  IF got.exc # NoExc THEN ExceptApiAny(got.exc, <<got.call>>, head)
        ELSE IF bad # NoExc THEN ExceptApiAny(bad, <<got.call>>, head)
        ELSE Returned(<<got.call>>,
                      Response("positions", [i \in DOMAIN got.val |-> "position"]))

\* ---------------------------------- market data tools (tools/market_data.py)

\* AlpacaClient.get_latest_quote
client_get_latest_quote(symbol, sdk, quote) ==
    Gateway(Call("get_stock_latest_quote", symbol, NoReq, Absent, sdk.ok),
            sdk, "Failed to get quote: ", quote)

\* handle_get_stock_quote(client, arguments); quote is a price, or None.
handle_get_stock_quote(a, sdk, quote) ==
    LET head == "Error getting quote for {symbol}: "
        symbol == Bind(Item(a, "symbol"), StrUpper)
        got == client_get_latest_quote(symbol.val, sdk, quote)
    IN  IF symbol.exc # NoExc THEN ExceptApiAny(symbol.exc, <<>>, head)
        ELSE IF got.exc # NoExc THEN ExceptApiAny(got.exc, <<got.call>>, head)
        ELSE IF ~Truthy(got.val)
        THEN Returned(<<got.call>>, Response("No quote data found for symbol ", symbol.val.s))
        ELSE Returned(<<got.call>>, Response("quote", symbol.val.s))

DefaultDays == 5

\* AlpacaClient.get_stock_bars: timedelta(days=days) is inside the try, so
\* a days that is no number fails as an APIError before the SDK is called.
client_get_stock_bars(symbol, days, sdk, bars) ==
    IF days.t # "num"
    THEN [exc |-> Exc("APIError", <<"Failed to get bars: ", "unsupported type for timedelta">>),
          val |-> <<>>, calls |-> <<>>]
    ELSE [exc |-> IF sdk.ok THEN NoExc
                  ELSE Exc("APIError", <<"Failed to get bars: ">> \o sdk.err),
          val |-> bars,
          calls |-> <<Call("get_stock_bars", symbol, NoReq, days, sdk.ok)>>]

\* "bars[-days:] if len(bars) > days else bars"
LimitBars(bars, days) ==
    IF Len(bars) > days
    THEN (IF days = 0 THEN bars
          ELSE SubSeq(bars, Len(bars) - days + 1, Len(bars)))
    ELSE bars

\* handle_get_stock_bars(client, arguments); bars are the bars' timestamps.
handle_get_stock_bars(a, sdk, bars) ==
    LET head == "Error getting bars for {symbol}: "
        symbol == Bind(Item(a, "symbol"), StrUpper)
        days == Get(a, "days", Num(DefaultDays))
        got == client_get_stock_bars(symbol.val, days, sdk, bars)
    IN  IF symbol.exc # NoExc THEN ExceptApiAny(symbol.exc, <<>>, head)
        ELSE IF got.exc # NoExc THEN ExceptApiAny(got.exc, got.calls, head)
        ELSE IF got.val = <<>>
        THEN Returned(got.calls, Response("No bar data found for symbol ", symbol.val.s))
        ELSE Returned(got.calls,
                      Response("bars", LimitBars(got.val, days.n)))

\* handle_ping(client, arguments): both except clauses answer "Ping failed".
handle_ping(a, sdk, account) ==
    LET got == client_get_account(sdk, account) IN
    IF got.exc # NoExc
    THEN Returned(<<got.call>>, Response("Ping failed: ", got.exc.msg))
    ELSE Returned(<<got.call>>, Response("Pong! Server is responding.", <<>>))

\* ------------------------------------------- brokerage error texts (str(e))

\* Other texts of a failed brokerage call: the one the legacy
\* take_partial_profit looks for, and one that is about no position.
E_position_not_found == <<"p","o","s","i","t","i","o","n"," ","n","o","t"," ","f","o","u","n","d">>
E_forbidden == <<"f","o","r","b","i","d","d","e","n">>

\* ------------------------------------ legacy server (alpaca_mcp_server.py)

\* The except clauses of a legacy tool: the SDK's APIError, then Exception.
LegacyExcept(sdk, calls, apiHead) ==
    IF sdk.api THEN Returned(calls, Response(apiHead, sdk.err))
    ELSE Returned(calls, Response("An unexpected error occurred: ", sdk.err))

\* legacy cancel_all_orders(): the statuses are summarised, n of them, of
\* which failed carry a status outside 200..299.
legacy_cancel_all_orders(sdk, n, failed) ==
    LET call == Call("cancel_orders", Absent, NoReq, Absent, sdk.ok) IN
    IF ~sdk.ok THEN LegacyExcept(sdk, <<call>>, "API error canceling orders: ")
    ELSE Returned(<<call>>,
                  Response("Attempted to cancel all orders. {n} succeeded, {m} failed.",
                           <<"succeeded">> \o [i \in 1..(n - failed) |-> "1"]
                           \o <<"failed">> \o [i \in 1..failed |-> "1"]))

\* str(close_percentage * 100): the number, as text the brokerage parses back.
StrOfTimes100(v) == [t |-> "str", n |-> v.n * 100, s |-> <<"number">>]

\* A faulty legacy take_partial_profit that closes when the profit is at
\* least the threshold, as the modular handler does.  C28 fails with it.
legacy_take_partial_profit_AtLeast(symbol, profit_threshold, close_percentage, sdkPos, position, sdkClose) ==
    LET head == "API error taking partial profit for "
        look == Call("get_open_position", symbol, NoReq, Absent, sdkPos.ok)
        profit_pct == Float(position.unrealized_plpc)
        close_req == ClosePositionRequest(StrOfTimes100(close_percentage))
        close == Call("close_position", symbol, NoReq, close_req.percentage, sdkClose.ok)
        notFound(sdk, calls) ==
            IF sdk.api /\ Contains(Lower(sdk.err), E_position_not_found)
            THEN Returned(calls, Response("No open position found for ", symbol.s))
            ELSE LegacyExcept(sdk, calls, head)
    IN  IF ~sdkPos.ok THEN notFound(sdkPos, <<look>>)
        ELSE IF profit_pct.exc # NoExc
        THEN Returned(<<look>>, Response("An unexpected error occurred: ", profit_pct.exc.msg))
        ELSE IF profit_pct.val.n >= profit_threshold.n
        THEN (IF ~sdkClose.ok THEN notFound(sdkClose, <<look, close>>)
              ELSE Returned(<<look, close>>, Response("Partial profit taken: ", symbol.s)))
        ELSE Returned(<<look>>, Response("Profit threshold not met for ", symbol.s))

\* legacy take_partial_profit(symbol, profit_threshold, close_percentage);
\* position is what get_open_position returns when it does not raise.
legacy_take_partial_profit(symbol, profit_threshold, close_percentage, sdkPos, position, sdkClose) ==
    LET head == "API error taking partial profit for "
        look == Call("get_open_position", symbol, NoReq, Absent, sdkPos.ok)
        profit_pct == Float(position.unrealized_plpc)
        close_req == ClosePositionRequest(StrOfTimes100(close_percentage))
        close == Call("close_position", symbol, NoReq, close_req.percentage, sdkClose.ok)
        notFound(sdk, calls) ==
            IF sdk.api /\ Contains(Lower(sdk.err), E_position_not_found)
            THEN Returned(calls, Response("No open position found for ", symbol.s))
            ELSE LegacyExcept(sdk, calls, head)
    IN  IF ~sdkPos.ok THEN notFound(sdkPos, <<look>>)
        ELSE IF profit_pct.exc # NoExc
        THEN Returned(<<look>>, Response("An unexpected error occurred: ", profit_pct.exc.msg))
        ELSE IF profit_pct.val.n > profit_threshold.n
        THEN (IF ~sdkClose.ok THEN notFound(sdkClose, <<look, close>>)
              ELSE Returned(<<look, close>>, Response("Partial profit taken: ", symbol.s)))
        ELSE Returned(<<look>>, Response("Profit threshold not met for ", symbol.s))

\* ------------------------------------- configuration (config/settings.py)

\* os.getenv(a) or os.getenv(b)
GetenvOr(e, a, b) == IF Truthy(e[a]) THEN e[a] ELSE e[b]

S_INFO == <<"I","N","F","O">>

\* ServerConfig.__post_init__: valid_levels
valid_levels ==
    {<<"D","E","B","U","G">>, S_INFO, <<"W","A","R","N","I","N","G">>,
     <<"E","R","R","O","R">>, <<"C","R","I","T","I","C","A","L">>}

\* load_server_config(): LOG_LEVEL (default INFO) must name a level.
load_server_config(e) ==
    LET log_level == IF e["LOG_LEVEL"] = None THEN Str(S_INFO) ELSE e["LOG_LEVEL"] IN
    IF Upper(log_level.s) \in valid_levels
    THEN Val(log_level)
    ELSE Raised(Exc("InvalidConfigurationError", <<"Invalid log level">>))

\* Faulty paper flag: without ALPACA_PAPER, a base URL that is not the
\* paper API's selects live trading.  C19 fails with it.
paper_LiveUrlMeansLive(paper_env, apca_base_url) ==
    LET suffix == <<"p","a","p","e","r","-","a","p","i",".","a","l","p","a","c","a",
                    ".","m","a","r","k","e","t","s">>
        url == apca_base_url.s
        endswith == /\ Len(url) >= Len(suffix)
                    /\ SubSeq(url, Len(url) - Len(suffix) + 1, Len(url)) = suffix
        chosen == IF paper_env # None THEN paper_env.s
                  ELSE IF endswith THEN <<"t","r","u","e">>
                  ELSE <<"f","a","l","s","e">>
    IN  Lower(chosen) = <<"t","r","u","e">>

\* load_alpaca_config's paper flag: ALPACA_PAPER when set, else "true"
\* whether or not APCA_API_BASE_URL ends with the paper API's host; then
\* paper = str(paper_env).lower() == "true".
paper(paper_env, apca_base_url) ==
    LET suffix == <<"p","a","p","e","r","-","a","p","i",".","a","l","p","a","c","a",
                    ".","m","a","r","k","e","t","s">>
        url == apca_base_url.s
        endswith == /\ Len(url) >= Len(suffix)
                    /\ SubSeq(url, Len(url) - Len(suffix) + 1, Len(url)) = suffix
        chosen == IF paper_env # None THEN paper_env.s
                  ELSE IF endswith THEN <<"t","r","u","e">>
                  ELSE <<"t","r","u","e">>
    IN  Lower(chosen) = <<"t","r","u","e">>

\* load_alpaca_config(): the credential pair, each under two names, the
\* paper flag and the base URL; AlpacaConfig is built when both credentials
\* are non-empty.
load_alpaca_config(e) ==
    LET api_key == GetenvOr(e, "ALPACA_API_KEY", "API_KEY_ID")
        secret_key == GetenvOr(e, "ALPACA_SECRET_KEY", "API_SECRET_KEY")
        apca_base_url == IF e["APCA_API_BASE_URL"] = None THEN Str(<<>>)
                         ELSE e["APCA_API_BASE_URL"]
        base_url == GetenvOr(e, "ALPACA_BASE_URL", "APCA_API_BASE_URL")
    IN  IF ~Truthy(api_key)
        THEN Raised(Exc("InvalidConfigurationError", <<"API key is required">>))
        ELSE IF ~Truthy(secret_key)
        THEN Raised(Exc("InvalidConfigurationError", <<"Secret key is required">>))
        ELSE Val([api_key |-> api_key, secret_key |-> secret_key,
                  paper |-> paper(e["ALPACA_PAPER"], apca_base_url),
                  base_url |-> base_url])

\* ------------------------------------------------- main.py client handle

\* A faulty get_alpaca_client without the "if _alpaca_client is None" guard:
\* every call loads the configuration and builds a client.  C21 fails with it.
get_alpaca_client_Unguarded(handle, e, connect) ==
    LET server_config == load_server_config(e)
        alpaca_config == load_alpaca_config(e)
    IN  IF server_config.exc # NoExc
        THEN [exc |-> server_config.exc, handle |-> handle, made |-> FALSE]
        ELSE IF alpaca_config.exc # NoExc
        THEN [exc |-> alpaca_config.exc, handle |-> handle, made |-> FALSE]
        ELSE IF ~connect
        THEN [exc |-> Exc("BrokerConnectionError", <<"Failed to connect to Alpaca">>),
              handle |-> handle, made |-> FALSE]
        ELSE [exc |-> NoExc, handle |-> "ready", made |-> TRUE]

\* get_alpaca_client(): the global handle if set; else the configuration is
\* loaded and the client built (connect tells whether the SDK clients could
\* be constructed), and every failure is re-raised with the handle unset.
\* made: AlpacaClient(alpaca_config) was constructed in this call.
get_alpaca_client(handle, e, connect) ==
    LET server_config == load_server_config(e)
        alpaca_config == load_alpaca_config(e)
    IN  IF handle # "none" THEN [exc |-> NoExc, handle |-> handle, made |-> FALSE]
        ELSE IF server_config.exc # NoExc
        THEN [exc |-> server_config.exc, handle |-> "none", made |-> FALSE]
        ELSE IF alpaca_config.exc # NoExc
        THEN [exc |-> alpaca_config.exc, handle |-> "none", made |-> FALSE]
        ELSE IF ~connect
        THEN [exc |-> Exc("BrokerConnectionError", <<"Failed to connect to Alpaca">>),
              handle |-> "none", made |-> FALSE]
        ELSE [exc |-> NoExc, handle |-> "ready", made |-> TRUE]

\* A main.py tool wrapper: the client handle, then the handler's one text
\* payload; any exception is reported with ctx.error and re-raised.
Wrapper(g, result) ==
    IF g.exc # NoExc THEN Escaped(<<>>, g.exc)
    ELSE IF result.raised # NoExc THEN Escaped(result.calls, result.raised)
    ELSE result

\* ------------------------------------------------------------ input sets

Keys == {"symbol", "side", "quantity", "limit_price", "order_type",
         "take_profit_price", "stop_loss_price", "stop_loss_limit_price",
         "time_in_force", "trail_type", "trail_amount", "profit_threshold",
         "close_percentage", "cancel_orders", "status", "limit", "days"}

\* An argument mapping: the keys of r, every other key missing.
Args(r) == [k \in Keys |-> IF k \in DOMAIN r THEN r[k] ELSE Absent]

Sym_ab == <<"a","b">>
Sym_AB == <<"A","B">>

S_Sell == <<"S","e","l","l">>
S_hold == <<"h","o","l","d">>

SdkOk == Sdk(TRUE, TRUE, <<>>)
SdkApiError(err) == Sdk(FALSE, TRUE, err)
SdkOtherError(err) == Sdk(FALSE, FALSE, err)

\* Outcomes of a brokerage call that places, cancels or reads.
CallOutcomes == {SdkOk, SdkApiError(E_forbidden), SdkOtherError(E_forbidden)}
\* Outcomes of a brokerage call about one symbol's position.
PositionOutcomes ==
    {SdkOk, SdkOtherError(E_forbidden)}
    \cup {SdkApiError(e) : e \in {E_forbidden, E_position_does_not_exist,
                                  E_position_not_found}}

\* The environment's inputs to one invocation.
World == [connect |-> TRUE, sdk1 |-> SdkOk, sdk2 |-> SdkOk, positions |-> <<>>,
          n |-> 0, failed |-> 0, orders |-> <<>>,
          account |-> Account(Num(100)), quote |-> None, bars |-> <<>>]

NoInv == [tool |-> "none", via |-> "none", args |-> Args(<<>>), world |-> World,
          out |-> Returned(<<>>, NoResponse)]

NoGatewayCall ==
    [method |-> "none", sdk |-> SdkOk, built |-> TRUE, sdkval |-> None,
     raised |-> NoExc, returned |-> None, api_error |-> NoExc]

\* Decimal amounts, in units of 1/100.
Qty == 100
Price == 15000
TakeProfit == 20000
StopLoss == 9000
StopLossLimit == 8500
Trail == 5

MaxOrders == 2
MaxBars == 3
MaxCancelled == 2

SideStrings == {S_buy, <<"B","U","Y">>, S_Sell, S_hold, <<>>}

\* Arguments a handler may be called with: typed values, None, or no key.
\* The market and limit handlers read no time_in_force; a caller of the
\* handler may still pass one.
HandlerArgs_market ==
    {Args([symbol |-> sy, side |-> sd, quantity |-> q, time_in_force |-> tif]) :
        sy \in {Str(Sym_ab), Str(Sym_AB), None, Absent},
        sd \in {Str(x) : x \in SideStrings} \cup {None, Absent},
        q \in {Num(Qty), Num(0), Num(0 - Qty), None, Absent}, tif \in {Absent, Str(S_gtc)}}

HandlerArgs_limit ==
    {[a EXCEPT !["limit_price"] = lp] :
        a \in {b \in HandlerArgs_market : b["symbol"] \in {Str(Sym_ab), Absent}},
        lp \in {Num(Price), None, Absent}}

HandlerArgs_bracket ==
    {Args([symbol |-> sy, side |-> Str(sd), quantity |-> q, order_type |-> ot,
           limit_price |-> lp, take_profit_price |-> tp, stop_loss_price |-> sl,
           stop_loss_limit_price |-> sll, time_in_force |-> tif]) :
        sy \in {Str(Sym_ab), Absent}, sd \in {S_buy, S_Sell, S_hold},
        q \in {Num(Qty), Num(0), None}, ot \in {Absent, Str(<<"L","i","m","i","t">>), Str(<<"s","t","o","p">>)},
        lp \in {None, Num(0), Num(Price)},
        tp \in {Num(TakeProfit), None, Absent}, sl \in {Num(StopLoss), None, Absent},
        sll \in {None, Num(StopLossLimit)}, tif \in {Absent, Str(S_day), Str(<<"i","o","c">>)}}

\* The OCO handler reads no side; a caller of the handler may still pass one.
HandlerArgs_oco ==
    {Args([symbol |-> sy, side |-> sd, quantity |-> q, take_profit_price |-> tp,
           stop_loss_price |-> sl, stop_loss_limit_price |-> sll,
           time_in_force |-> tif]) :
        sy \in {Str(Sym_ab), Absent}, sd \in {Absent, Str(S_buy)},
        q \in {Num(Qty), Num(0), None},
        tp \in {Num(TakeProfit), None, Absent}, sl \in {Num(StopLoss), None, Absent},
        sll \in {None, Num(0), Num(StopLossLimit)}, tif \in {Absent, Str(S_day), None}}

HandlerArgs_oto ==
    {Args([symbol |-> sy, side |-> Str(sd), quantity |-> q, order_type |-> ot,
           limit_price |-> lp, take_profit_price |-> tp, stop_loss_price |-> sl,
           stop_loss_limit_price |-> sll, time_in_force |-> tif]) :
        sy \in {Str(Sym_ab), Absent}, sd \in {S_buy, S_Sell, S_hold},
        q \in {Num(Qty), Num(0)}, ot \in {Absent, Str(<<"L","i","m","i","t">>), Str(<<"s","t","o","p">>)},
        lp \in {None, Num(0), Num(Price)},
        tp \in {Num(TakeProfit), Num(0), None, Absent},
        sl \in {Num(StopLoss), Num(0), None, Absent},
        sll \in {None, Num(0), Num(StopLossLimit)}, tif \in {Absent, Str(<<"i","o","c">>)}}

HandlerArgs_trailing ==
    {Args([symbol |-> sy, side |-> Str(sd), quantity |-> q, trail_type |-> tt,
           trail_amount |-> ta, time_in_force |-> tif]) :
        sy \in {Str(Sym_ab), Absent}, sd \in {S_buy, S_Sell, S_hold},
        q \in {Num(Qty), Num(0), None},
        tt \in {Str(S_price), Str(<<"P","R","I","C","E">>), Str(S_percent), Str(<<"P","e","r","c","e","n","t">>),
                Str(<<"r","a","t","i","o">>), None, Absent},
        ta \in {Num(Trail), Num(0), Num(0 - Trail), None, Absent},
        tif \in {Absent, Str(S_GTC)}}

\* Orders the brokerage may report: up to MaxOrders, each with all its
\* fields, without the optional ones, or without a qty as well.
OrderLists ==
    UNION {[1..k -> {OrderRecord(Num(Qty), Num(0), Num(Price)),
                     OrderRecord(Num(Qty), None, None),
                     OrderRecord(None, None, None)}] : k \in 0..MaxOrders}

HandlerArgs_orders ==
    {Args([status |-> st, limit |-> Num(MaxOrders)]) :
        st \in {Absent, Str(S_open), None}}

Accounts == {Account(Num(Price)), Account(None)}

HandlerArgs_quote ==
    {Args([symbol |-> sy]) : sy \in {Str(Sym_ab), Str(<<"A","b">>), None, Absent}}

\* Bars the brokerage may report: the timestamps 1..k, k up to MaxBars.
BarLists == {[i \in 1..k |-> i] : k \in 0..MaxBars}

HandlerArgs_bars ==
    {Args([symbol |-> sy, days |-> d]) :
        sy \in {Str(Sym_ab), Absent}, d \in {Absent, None} \cup {Num(k) : k \in 0..MaxBars}}

\* unrealized_plpc values around the thresholds, or not reported.
PositionPlpcs == {None, Num(0), Num(10), Num(20), Num(30)}

\* Positions the brokerage may report: symbol AB or XY, with an
\* unrealized_plpc around the thresholds, or none reported.
PositionLists ==
    LET ab == {Position(Sym_AB, p) : p \in PositionPlpcs}
        xy == Position(<<"X","Y">>, Num(30))
    IN  {<<>>, <<xy>>} \cup {<<p>> : p \in ab} \cup {<<xy, p>> : p \in ab}

HandlerArgs_partial ==
    {Args([symbol |-> sy, profit_threshold |-> th, close_percentage |-> cp]) :
        sy \in {Str(Sym_ab), Str(Sym_AB), Absent},
        th \in {Absent, Num(10), Num(20), None},
        cp \in {Absent, Num(50), Num(100), None}}

\* A call the protocol host can make of a main.py tool: the required
\* parameters (req) with values of their declared type, the defaulted ones
\* (a key of defaults) of their declared type or omitted, and no argument
\* that is not a parameter of the tool.
IsHostCall(a, req, defaults) ==
    /\ \A k \in req : a[k].t \in {"str", "num", "bool"}
    /\ \A k \in DOMAIN defaults : a[k].t \in {"str", "num", "bool", "absent"}
    /\ \A k \in Keys \ (req \cup DOMAIN defaults) : a[k] = Absent

\* The mapping a main.py wrapper hands its handler: every parameter of the
\* tool, an omitted one at its default.
WrapperArgs(a, defaults) ==
    [k \in Keys |-> IF k \in DOMAIN defaults /\ a[k] = Absent THEN defaults[k] ELSE a[k]]

NoDefaults == <<>>
BracketDefaults == [order_type |-> Str(S_market), limit_price |-> None,
                    stop_loss_limit_price |-> None, time_in_force |-> Str(S_gtc)]
OcoDefaults == [stop_loss_limit_price |-> None, time_in_force |-> Str(S_gtc)]
OtoDefaults == [order_type |-> Str(S_market), limit_price |-> None,
                take_profit_price |-> None, stop_loss_price |-> None,
                stop_loss_limit_price |-> None, time_in_force |-> Str(S_gtc)]
TrailingDefaults == [time_in_force |-> Str(S_day)]
PartialDefaults == [profit_threshold |-> Num(DefaultProfitThreshold),
                    close_percentage |-> Num(DefaultClosePercentage)]
OrdersDefaults == [status |-> Str(S_all), limit |-> Num(10)]
BarsDefaults == [days |-> Num(DefaultDays)]
CloseAllDefaults == [cancel_orders |-> Bool(TRUE)]

\* ------------------------------------------------------------ the process

\* The environments the process may start in; a variable that is not set
\* reads as None (os.getenv).
StartEnvs ==
    {[ALPACA_API_KEY |-> None, ALPACA_SECRET_KEY |-> None,
      API_KEY_ID |-> k, API_SECRET_KEY |-> sk, LOG_LEVEL |-> l,
      APCA_API_KEY_ID |-> None, APCA_API_SECRET_KEY |-> None,
      ALPACA_PAPER |-> None, ALPACA_BASE_URL |-> None, APCA_API_BASE_URL |-> None] :
        k \in {None, Str(<<>>), Str(<<"k","e","y">>)},
        sk \in {None, Str(<<>>), Str(<<"k","e","y">>)},
        l \in {None, Str(<<"b","o","g","u","s">>)}}

\* "https://api.alpaca.markets", the live API.
LiveUrl ==
    <<"h","t","t","p","s",":","/","/","a","p","i",".","a","l","p","a","c","a",
      ".","m","a","r","k","e","t","s">>

\* The environments load_alpaca_config() may be called in: each credential
\* under its three names (unset, empty, or a value that tells the name),
\* ALPACA_PAPER unset or set, the base URLs unset or the paper or live API.
ConfigEnvs ==
    {[ALPACA_API_KEY |-> k1, API_KEY_ID |-> k2, APCA_API_KEY_ID |-> k3,
      ALPACA_SECRET_KEY |-> s1, API_SECRET_KEY |-> s2, APCA_API_SECRET_KEY |-> s3,
      ALPACA_PAPER |-> p, ALPACA_BASE_URL |-> u1, APCA_API_BASE_URL |-> u2,
      LOG_LEVEL |-> None] :
        k1 \in {None, Str(<<>>), Str(<<"k","1">>)}, k2 \in {None, Str(<<"k","2">>)},
        k3 \in {None, Str(<<"k","3">>)},
        s1 \in {None, Str(<<"s","1">>)}, s2 \in {None, Str(<<>>), Str(<<"s","2">>)},
        s3 \in {None, Str(<<"s","3">>)},
        p \in {None, Str(<<>>), Str(<<"t","r","u","e">>), Str(<<"T","r","u","e">>),
                Str(<<"f","a","l","s","e">>), Str(<<"1">>)},
        u1 \in {None, Str(LiveUrl)},
        u2 \in {None, Str(LiveUrl),
                Str(SubSeq(LiveUrl, 1, 8) \o <<"p","a","p","e","r","-">>
                    \o SubSeq(LiveUrl, 9, Len(LiveUrl)))}}

\* Tool coroutines in flight at one time, and invocations the host makes.
MaxTasks == 2
MaxInvocations == 3

Tasks == 1..MaxTasks

\* A task slot without a coroutine.
NoTask == [pc |-> "idle", tool |-> "none", inv |-> 0, client |-> 0,
           raised |-> NoExc, pending |-> <<>>]

\* No invocation yet: no AlpacaClient built (built), none in _alpaca_client
\* (handle = 0), no brokerage call made (log).
NoLoop == [task |-> [t \in Tasks |-> NoTask], log |-> <<>>, started |-> 0,
           built |-> 0, handle |-> 0]

\* No configuration has been loaded.
NoConfig == Val(None)

Init ==
    /\ env \in StartEnvs
    /\ phase = "off"
    /\ entry = "none"
    /\ client = "none"
    /\ pc = "idle"
    /\ inv = NoInv
    /\ gw = NoGatewayCall
    /\ cfg = NoConfig
    /\ loop = NoLoop

\* main.py __main__: the server configuration is loaded, logging set up and
\* mcp.run() serves; an exception ends the process with exit(1).
StartMain ==
    /\ phase = "off"
    /\ phase' = IF load_server_config(env).exc = NoExc THEN "serving" ELSE "exited"
    /\ entry' = "main"
    /\ UNCHANGED <<env, client, pc, inv, gw, cfg, loop>>

\* alpaca_mcp_server.py, module level and __main__: without both
\* credentials a ValueError ends the import; the SDK clients are built and
\* get_account() called (connect: it did not raise); then mcp.run() serves.
StartLegacy ==
    /\ phase = "off"
    /\ \E connect \in BOOLEAN :
        phase' = IF ~Truthy(env["API_KEY_ID"]) \/ ~Truthy(env["API_SECRET_KEY"])
                 THEN "exited"
                 ELSE IF connect THEN "serving" ELSE "exited"
    /\ entry' = "legacy"
    /\ UNCHANGED <<env, client, pc, inv, gw, cfg, loop>>

\* The main.py server is serving and no invocation is in progress.
MainIdle == pc = "idle" /\ phase = "serving" /\ entry = "main"

\* One invocation of a modular tool: of the handler itself by a caller that
\* holds the client (via = "handler", arguments a), or of the main.py
\* wrapper by the protocol host (via = "main").
Invoke(tool, via, a, w, result) ==
    /\ via = "handler" => client = "ready"
    /\ \E connect \in (IF via = "main" /\ client = "none" THEN BOOLEAN ELSE {TRUE}) :
        LET g == IF via = "main" THEN get_alpaca_client(client, env, connect)
                 ELSE [exc |-> NoExc, handle |-> client, made |-> FALSE]
        IN  /\ client' = g.handle
            /\ cfg' = IF client = "none" /\ g.handle = "ready"
                      THEN load_alpaca_config(env) ELSE cfg
            /\ inv' = [tool |-> tool, via |-> via, args |-> a,
                       world |-> [w EXCEPT !.connect = connect],
                       out |-> IF via = "main" THEN Wrapper(g, result) ELSE result]
    /\ pc' = "done"
    /\ UNCHANGED <<env, phase, entry, gw, loop>>

\* The arguments of one invocation: any of handlerArgs for the handler, the
\* wrapper's mapping of a host call for main.py.
Passed(via, handlerArgs, req, defaults) ==
    IF via = "handler" THEN handlerArgs
    ELSE {WrapperArgs(a, defaults) : a \in {b \in handlerArgs : IsHostCall(b, req, defaults)}}

Vias == {"handler", "main"}

place_market_order ==
    /\ MainIdle
    /\ \E via \in Vias, sdk \in CallOutcomes :
       \E a \in Passed(via, HandlerArgs_market, {"symbol", "side", "quantity"}, NoDefaults) :
           Invoke("place_market_order", via, a, [World EXCEPT !.sdk1 = sdk],
                  handle_place_market_order(a, sdk))

place_limit_order ==
    /\ MainIdle
    /\ \E via \in Vias, sdk \in CallOutcomes :
       \E a \in Passed(via, HandlerArgs_limit,
                       {"symbol", "side", "quantity", "limit_price"}, NoDefaults) :
           Invoke("place_limit_order", via, a, [World EXCEPT !.sdk1 = sdk],
                  handle_place_limit_order(a, sdk))

place_bracket_order ==
    /\ MainIdle
    /\ \E via \in Vias, sdk \in {SdkOk, SdkApiError(E_forbidden)} :
       \E a \in Passed(via, HandlerArgs_bracket,
                       {"symbol", "side", "quantity", "take_profit_price", "stop_loss_price"},
                       BracketDefaults) :
           Invoke("place_bracket_order", via, a, [World EXCEPT !.sdk1 = sdk],
                  handle_place_bracket_order(a, sdk))

place_oco_order ==
    /\ MainIdle
    /\ \E via \in Vias, sdk \in {SdkOk, SdkApiError(E_forbidden)} :
       \E a \in Passed(via, HandlerArgs_oco,
                       {"symbol", "quantity", "take_profit_price", "stop_loss_price"},
                       OcoDefaults) :
           Invoke("place_oco_order", via, a, [World EXCEPT !.sdk1 = sdk],
                  handle_place_oco_order(a, sdk))

place_oto_order ==
    /\ MainIdle
    /\ \E via \in Vias, sdk \in {SdkOk, SdkApiError(E_forbidden)} :
       \E a \in Passed(via, HandlerArgs_oto, {"symbol", "side", "quantity"}, OtoDefaults) :
           Invoke("place_oto_order", via, a, [World EXCEPT !.sdk1 = sdk],
                  handle_place_oto_order(a, sdk))

place_trailing_stop_order ==
    /\ MainIdle
    /\ \E via \in Vias, sdk \in {SdkOk, SdkApiError(E_forbidden)} :
       \E a \in Passed(via, HandlerArgs_trailing,
                       {"symbol", "side", "quantity", "trail_type", "trail_amount"},
                       TrailingDefaults) :
           Invoke("place_trailing_stop_order", via, a, [World EXCEPT !.sdk1 = sdk],
                  handle_place_trailing_stop_order(a, sdk))

cancel_all_orders ==
    /\ MainIdle
    /\ \E via \in Vias, sdk \in CallOutcomes, n \in 0..MaxCancelled :
           Invoke("cancel_all_orders", via, Args(<<>>),
                  [World EXCEPT !.sdk1 = sdk, !.n = n],
                  handle_cancel_all_orders(Args(<<>>), sdk, n))

close_all_positions ==
    /\ MainIdle
    /\ \E via \in Vias, sdkCancel \in CallOutcomes, sdkClose \in CallOutcomes,
          n \in 0..MaxCancelled :
       \E a \in Passed(via, {Args([cancel_orders |-> c]) :
                               c \in {Absent, None, Bool(TRUE), Bool(FALSE)}},
                       {}, CloseAllDefaults) :
           Invoke("close_all_positions", via, a,
                  [World EXCEPT !.sdk1 = sdkCancel, !.sdk2 = sdkClose, !.n = n],
                  handle_close_all_positions(a, sdkCancel, sdkClose, n))

take_partial_profit ==
    /\ MainIdle
    /\ \E via \in Vias, sdkPos \in {SdkOk, SdkApiError(E_forbidden)},
          positions \in PositionLists, sdkClose \in PositionOutcomes :
       \E a \in Passed(via, HandlerArgs_partial, {"symbol"}, PartialDefaults) :
           /\ ~sdkPos.ok => positions = <<>> /\ sdkClose = SdkOk
           /\ Invoke("take_partial_profit", via, a,
                     [World EXCEPT !.sdk1 = sdkPos, !.sdk2 = sdkClose,
                                   !.positions = positions],
                     handle_take_partial_profit(a, sdkPos, positions, sdkClose))

get_orders ==
    /\ MainIdle
    /\ \E via \in Vias, sdk \in CallOutcomes, orders \in OrderLists :
       \E a \in Passed(via, HandlerArgs_orders, {}, OrdersDefaults) :
           Invoke("get_orders", via, a, [World EXCEPT !.sdk1 = sdk, !.orders = orders],
                  handle_get_orders(a, sdk, orders))

get_account_info ==
    /\ MainIdle
    /\ \E via \in Vias, sdk \in CallOutcomes, account \in Accounts :
           Invoke("get_account_info", via, Args(<<>>),
                  [World EXCEPT !.sdk1 = sdk, !.account = account],
                  handle_get_account_info(Args(<<>>), sdk, account))

get_positions ==
    /\ MainIdle
    /\ \E via \in Vias, sdk \in CallOutcomes, positions \in PositionLists :
           Invoke("get_positions", via, Args(<<>>),
                  [World EXCEPT !.sdk1 = sdk, !.positions = positions],
                  handle_get_positions(Args(<<>>), sdk, positions))

get_stock_quote ==
    /\ MainIdle
    /\ \E via \in Vias, sdk \in CallOutcomes, quote \in {None, Num(Price)} :
       \E a \in Passed(via, HandlerArgs_quote, {"symbol"}, NoDefaults) :
           Invoke("get_stock_quote", via, a, [World EXCEPT !.sdk1 = sdk, !.quote = quote],
                  handle_get_stock_quote(a, sdk, quote))

get_stock_bars ==
    /\ MainIdle
    /\ \E via \in Vias, sdk \in CallOutcomes, bars \in BarLists :
       \E a \in Passed(via, HandlerArgs_bars, {"symbol"}, BarsDefaults) :
           Invoke("get_stock_bars", via, a, [World EXCEPT !.sdk1 = sdk, !.bars = bars],
                  handle_get_stock_bars(a, sdk, bars))

ping ==
    /\ MainIdle
    /\ \E via \in Vias, sdk \in CallOutcomes, account \in Accounts :
           Invoke("ping", via, Args(<<>>),
                  [World EXCEPT !.sdk1 = sdk, !.account = account],
                  handle_ping(Args(<<>>), sdk, account))

\* The legacy server is serving and no invocation is in progress.
LegacyIdle == pc = "idle" /\ phase = "serving" /\ entry = "legacy"

\* One invocation of a legacy tool by the protocol host.
InvokeLegacy(tool, a, w, result) ==
    /\ inv' = [tool |-> tool, via |-> "legacy", args |-> a, world |-> w, out |-> result]
    /\ pc' = "done"
    /\ UNCHANGED <<env, phase, entry, client, gw, cfg, loop>>

\* legacy cancel_all_orders()
LegacyCancelAllOrders ==
    /\ LegacyIdle
    /\ \E sdk \in CallOutcomes, n \in 0..MaxCancelled :
       \E failed \in 0..n :
           /\ ~sdk.ok => n = 0
           /\ InvokeLegacy("cancel_all_orders", Args(<<>>),
                           [World EXCEPT !.sdk1 = sdk, !.n = n, !.failed = failed],
                           legacy_cancel_all_orders(sdk, n, failed))

\* legacy take_partial_profit(symbol, profit_threshold=0.2, close_percentage=0.5)
LegacyTakePartialProfit ==
    /\ LegacyIdle
    /\ \E sdkPos \in PositionOutcomes, sdkClose \in PositionOutcomes,
          plpc \in PositionPlpcs, b \in HandlerArgs_partial :
           /\ IsHostCall(b, {"symbol"}, PartialDefaults)
           /\ ~sdkPos.ok => plpc = None /\ sdkClose = SdkOk
           /\ LET a == WrapperArgs(b, PartialDefaults)
                  position == Position(a["symbol"].s, plpc)
              IN  InvokeLegacy("take_partial_profit", a,
                               [World EXCEPT !.sdk1 = sdkPos, !.sdk2 = sdkClose,
                                             !.positions = <<position>>],
                               legacy_take_partial_profit(
                                   a["symbol"], a["profit_threshold"],
                                   a["close_percentage"], sdkPos, position, sdkClose))

\* The methods of AlpacaClient a holder of the client may call.
GatewayMethods ==
    {"get_account", "get_all_positions", "get_orders", "submit_order",
     "cancel_all_orders", "close_position", "get_latest_quote", "list_orders",
     "submit_market_order", "get_position"}

\* One direct call of an AlpacaClient method with well-typed arguments: the
\* SDK call returns sdkval or fails as sdk says; built tells whether the
\* SDK's request constructor accepts a request without time_in_force.
GatewayCall ==
    /\ MainIdle
    /\ client = "ready"
    /\ \E m \in GatewayMethods, sdk \in PositionOutcomes, built \in BOOLEAN :
        LET symbol == Str(Sym_AB)
            order_request == MarketOrderRequest(symbol, Num(Qty), Str(<<"B","U","Y">>),
                                                TIF_DAY, "simple", NoLeg, NoLeg).val
            sdkval == CASE m = "get_account" -> Account(Num(Price))
                        [] m = "get_all_positions" -> <<Position(Sym_AB, Num(10))>>
                        [] m \in {"get_orders", "list_orders"} ->
                               <<OrderRecord(Num(Qty), Num(0), Num(Price))>>
                        [] m = "submit_order" -> order_request
                        [] m = "submit_market_order" -> [order_request EXCEPT !.tif = "unset"]
                        [] m = "cancel_all_orders" -> MaxCancelled
                        [] m = "close_position" -> ClosePositionRequest(Num(50))
                        [] m = "get_latest_quote" -> Num(Price)
                        [] m = "get_position" -> Position(Sym_AB, Num(10))
            res == CASE m = "get_account" -> client_get_account(sdk, sdkval)
                     [] m = "get_all_positions" -> client_get_all_positions(sdk, sdkval)
                     [] m = "get_orders" -> client_get_orders(sdk, sdkval)
                     [] m = "list_orders" -> client_list_orders(Str(S_all), Num(10), sdk, sdkval)
                     [] m = "submit_order" -> client_submit_order(sdkval, sdk)
                     [] m = "submit_market_order" ->
                            client_submit_market_order(symbol, Str(S_buy), Num(Qty), built, sdk)
                     [] m = "cancel_all_orders" -> client_cancel_all_orders(sdk, sdkval)
                     [] m = "close_position" -> client_close_position(symbol, sdkval, sdk)
                     [] m = "get_latest_quote" -> client_get_latest_quote(symbol, sdk, sdkval)
                     [] m = "get_position" -> client_get_position(symbol, sdk, sdkval)
        IN  gw' = [method |-> m, sdk |-> sdk, built |-> built, sdkval |-> sdkval,
                   raised |-> res.exc, returned |-> res.val, api_error |-> res.api_error]
    /\ pc' = "done"
    /\ UNCHANGED <<env, phase, entry, client, inv, cfg, loop>>

\* The protocol host receives the outcome; the server waits for the next call.
Deliver ==
    /\ pc = "done"
    /\ pc' = "idle"
    /\ inv' = NoInv
    /\ gw' = NoGatewayCall
    /\ UNCHANGED <<env, phase, entry, client, cfg, loop>>

Next ==
    \/ StartMain
    \/ StartLegacy
    \/ place_market_order
    \/ place_limit_order
    \/ place_bracket_order
    \/ place_oco_order
    \/ place_oto_order
    \/ place_trailing_stop_order
    \/ cancel_all_orders
    \/ close_all_positions
    \/ take_partial_profit
    \/ get_orders
    \/ get_account_info
    \/ get_positions
    \/ get_stock_quote
    \/ get_stock_bars
    \/ ping
    \/ LegacyCancelAllOrders
    \/ LegacyTakePartialProfit
    \/ GatewayCall
    \/ Deliver

Spec == Init /\ [][Next]_vars

\* ------------------------------------------- the configuration loader alone

\* One call of load_alpaca_config() in the process environment.
LoadAlpacaConfig ==
    /\ pc = "idle"
    /\ cfg' = load_alpaca_config(env)
    /\ pc' = "done"
    /\ UNCHANGED <<env, phase, entry, client, inv, gw, loop>>

\* load_alpaca_config() called once, in any environment of ConfigEnvs.
ConfigSpec ==
    /\ env \in ConfigEnvs /\ phase = "off" /\ entry = "none" /\ client = "none"
    /\ pc = "idle" /\ inv = NoInv /\ gw = NoGatewayCall /\ cfg = NoConfig
    /\ loop = NoLoop
    /\ [][LoadAlpacaConfig]_vars

\* --------------------------- concurrent invocations (main.py on the event loop)

\* The runs of a handler between suspension points, as the sequences of
\* brokerage calls each makes, were every client call awaited.  C29 fails
\* with it.
HandlerSegments_AwaitEachCall(calls) == [i \in DOMAIN calls |-> <<calls[i]>>]

\* The runs of a handler between suspension points: the handlers of
\* tools/*.py are "async def" without any await and the AlpacaClient methods
\* are synchronous, so all the calls of a handler fall in one run.
HandlerSegments(calls) == <<calls>>

\* The tools the host invokes concurrently.
LoopTools == {"take_partial_profit", "cancel_all_orders"}

\* The brokerage calls of a run, as made by invocation i.
LogOf(i, calls) == [k \in DOMAIN calls |-> [inv |-> i, op |-> calls[k].op]]

\* The host invokes a tool: the wrapper coroutine starts, in the first free
\* slot, and runs up to "await ctx.info(...)".
StartInvocation(t) ==
    /\ phase = "serving" /\ entry = "main"
    /\ loop.task[t].pc = "idle"
    /\ \A u \in 1..(t - 1) : loop.task[u].pc # "idle"
    /\ loop.started < MaxInvocations
    /\ \E tool \in LoopTools :
        loop' = [loop EXCEPT !.started = @ + 1,
                             !.task[t] = [NoTask EXCEPT !.pc = "info", !.tool = tool,
                                                        !.inv = loop.started + 1]]
    /\ UNCHANGED <<env, phase, entry, client, pc, inv, gw, cfg>>

\* The event loop resumes the coroutine of task t, which runs up to its next
\* suspension point.  From "await ctx.info": get_alpaca_client() and the
\* handler, whose result is returned ("done"), or "await ctx.error(...)"
\* when get_alpaca_client raised.  From "await ctx.error": the re-raise.
Resume(t) ==
    /\ phase = "serving" /\ entry = "main"
    /\ loop.task[t].pc \in {"info", "body", "error"}
    /\ \E connect \in (IF loop.task[t].pc = "info" /\ client = "none" THEN BOOLEAN ELSE {TRUE}),
          sdk1 \in {SdkOk, SdkApiError(E_forbidden)}, sdk2 \in {SdkOk, SdkApiError(E_forbidden)},
          positions \in {<<>>, <<Position(Sym_AB, Num(30))>>}, n \in 0..1 :
        LET tk == loop.task[t]
            g == get_alpaca_client(client, env, connect)
            a == WrapperArgs(Args([symbol |-> Str(Sym_ab)]), PartialDefaults)
            result == IF tk.tool = "take_partial_profit"
                      THEN handle_take_partial_profit(a, sdk1, positions, sdk2)
                      ELSE handle_cancel_all_orders(Args(<<>>), sdk1, n)
            instance == IF g.made THEN loop.built + 1 ELSE loop.handle
            runs == IF tk.pc = "info" THEN HandlerSegments(result.calls) ELSE tk.pending
        IN  /\ tk.pc = "info" => (sdk1.ok \/ positions = <<>>) /\ (tk.tool = "cancel_all_orders" => sdk2.ok /\ positions = <<>>)
            /\ tk.pc # "info" => sdk1.ok /\ sdk2.ok /\ positions = <<>> /\ n = 0
            /\ IF tk.pc = "error"
               THEN /\ loop' = [loop EXCEPT !.task[t].pc = "done"]
                    /\ client' = client
               ELSE IF tk.pc = "info" /\ g.exc # NoExc
               THEN /\ loop' = [loop EXCEPT !.task[t].pc = "error", !.task[t].raised = g.exc]
                    /\ client' = g.handle
               ELSE /\ loop' = [loop EXCEPT
                                   !.task[t].pc = IF Len(runs) > 1 THEN "body" ELSE "done",
                                   !.task[t].client = IF tk.pc = "info" THEN instance ELSE @,
                                   !.task[t].pending = Tail(runs),
                                   !.log = @ \o LogOf(tk.inv, Head(runs)),
                                   !.built = IF tk.pc = "info" /\ g.made THEN @ + 1 ELSE @,
                                   !.handle = IF tk.pc = "info" THEN instance ELSE @]
                    /\ client' = IF tk.pc = "info" THEN g.handle ELSE client
    /\ UNCHANGED <<env, phase, entry, pc, inv, gw, cfg>>

\* The host receives the result or the error of task t; the slot is free.
Return(t) ==
    /\ loop.task[t].pc = "done"
    /\ loop' = [loop EXCEPT !.task[t] = NoTask]
    /\ UNCHANGED <<env, phase, entry, client, pc, inv, gw, cfg>>

LoopNext ==
    \/ StartMain
    \/ \E t \in Tasks : StartInvocation(t)
    \/ \E t \in Tasks : Resume(t)
    \/ \E t \in Tasks : Return(t)

\* main.py before it serves, in an environment with or without the API key.
LoopInit ==
    /\ env \in {e \in StartEnvs : e["LOG_LEVEL"] = None /\ Truthy(e["API_SECRET_KEY"])}
    /\ phase = "off" /\ entry = "none" /\ client = "none"
    /\ pc = "idle" /\ inv = NoInv /\ gw = NoGatewayCall /\ cfg = NoConfig
    /\ loop = NoLoop

\* main.py serving concurrent invocations on one event loop.
LoopSpec == LoopInit /\ [][LoopNext]_vars


\* ------------------------------------------------------------- properties

\* The handler of the modular tool ran in the invocation just made: it was
\* called directly, or by its main.py wrapper once the client handle existed.
HandlerRan(tool) ==
    pc = "done" /\ inv.tool = tool /\ inv.via \in Vias /\ client = "ready"

\* The legacy tool ran in the invocation just made.
LegacyRan(tool) == pc = "done" /\ inv.tool = tool /\ inv.via = "legacy"

\* The number of calls of op the invocation made of the brokerage.
CallsOf(op) == Cardinality({i \in DOMAIN inv.out.calls : inv.out.calls[i].op = op})

\* The argument was given, as a value other than None.
Present(v) == v.t \notin {"none", "absent"}

\* The argument as the handler reads it with arguments.get(key, default).
Given(key, default) == IF inv.args[key] = Absent THEN default ELSE inv.args[key]

SideTools ==
    {"place_market_order", "place_limit_order", "place_bracket_order",
     "place_oto_order", "place_trailing_stop_order"}

RejectedForSide ==
    /\ inv.out.resp.head = H_invalid
    /\ inv.out.resp.detail # <<>>
    /\ Head(inv.out.resp.detail) = "Invalid order side: "

\* C1: in the five order handlers that take a side, a side string whose
\* lowercase form is neither "buy" nor "sell" is answered "Invalid
\* parameters: ..." and no submit_order call is made; "buy" and "sell" in any
\* letter case are not rejected, and an order submitted carries that side.
C1_InvalidSideRejectedBeforeSubmit ==
    \A tool \in SideTools :
        (HandlerRan(tool) /\ inv.args["symbol"].t = "str" /\ inv.args["side"].t = "str")
        => IF Lower(inv.args["side"].s) \notin {S_buy, S_sell}
           THEN RejectedForSide /\ CallsOf("submit_order") = 0
           ELSE /\ ~RejectedForSide
                /\ \A i \in DOMAIN inv.out.calls :
                       inv.out.calls[i].req.side.s = Upper(inv.args["side"].s)

\* C1's case: the OTO handler answered a call whose side is "hold".
C1_Witness ==
    /\ HandlerRan("place_oto_order")
    /\ inv.args["symbol"] = Str(Sym_ab)
    /\ inv.args["side"] = Str(S_hold)
    /\ RejectedForSide

\* An OTO request valid in everything but its exit legs: symbol, side and
\* quantity as declared, a market entry or a limit entry with its price,
\* each leg a number or not given.
OtoOtherwiseValid ==
    /\ HandlerRan("place_oto_order")
    /\ inv.args["symbol"].t = "str"
    /\ inv.args["side"].t = "str" /\ Lower(inv.args["side"].s) \in {S_buy, S_sell}
    /\ inv.args["quantity"].t = "num"
    /\ Given("order_type", Str(S_market)).t = "str"
    /\ Lower(Given("order_type", Str(S_market)).s) \in {S_market, S_limit}
    /\ Lower(Given("order_type", Str(S_market)).s) = S_limit
           => inv.args["limit_price"].t = "num" /\ inv.args["limit_price"].n > 0
    /\ inv.args["time_in_force"].t \in {"str", "absent"}
    /\ inv.args["take_profit_price"].t \in {"num", "none", "absent"}
    /\ inv.args["stop_loss_price"].t \in {"num", "none", "absent"}
    /\ inv.args["stop_loss_limit_price"].t \in {"num", "none", "absent"}

ExactlyOneLegPresent ==
    Present(inv.args["take_profit_price"]) # Present(inv.args["stop_loss_price"])

\* C2: an otherwise valid OTO request proceeds to submit_order if and only
\* if exactly one of take_profit_price and stop_loss_price is present,
\* whatever the present value (0 included); otherwise the answer is
\* "Invalid parameters: ..." and submit_order is not called.
C2_OtoSubmitsIffExactlyOneLeg ==
    OtoOtherwiseValid
    => /\ CallsOf("submit_order") = 1 <=> ExactlyOneLegPresent
       /\ ~ExactlyOneLegPresent
              => inv.out.resp.head = H_invalid /\ CallsOf("submit_order") = 0

\* The brokerage's reply to a request about a symbol that has no open
\* position, in the words AlpacaClient.get_position expects of it.
BrokerageSaysNoPosition(sdk) ==
    ~sdk.ok /\ sdk.api /\ sdk.err = E_position_does_not_exist

NotFoundResults == {"No position found for symbol ", "No open position found for "}

\* C3: take_partial_profit for a symbol without an open position answers
\* "not found", no generic error, and makes no close_position or
\* submit_order call: in the modular handler (no position of that symbol in
\* get_all_positions) and in the legacy tool (get_open_position raising).
C3_NoPositionIsNotFound ==
    /\ (/\ HandlerRan("take_partial_profit")
        /\ inv.args["symbol"].t = "str"
        /\ inv.world.sdk1.ok
        /\ \A i \in DOMAIN inv.world.positions :
               inv.world.positions[i].symbol # Upper(inv.args["symbol"].s))
       => /\ inv.out.resp.head \in NotFoundResults
          /\ CallsOf("close_position") = 0 /\ CallsOf("submit_order") = 0
    /\ (LegacyRan("take_partial_profit") /\ BrokerageSaysNoPosition(inv.world.sdk1))
       => /\ inv.out.resp.head \in NotFoundResults
          /\ CallsOf("close_position") = 0 /\ CallsOf("submit_order") = 0

\* The position of the invocation's symbol among those the brokerage
\* reported, and its unrealized_plpc with a missing value read as 0.
PositionHeld == FindPosition(inv.world.positions, Upper(inv.args["symbol"].s))
PlpcHeld ==
    IF PositionHeld.unrealized_plpc = None THEN 0 ELSE PositionHeld.unrealized_plpc.n

\* handle_take_partial_profit ran for a symbol with an open position and a
\* numeric (or defaulted) profit_threshold.
PartialProfitDecided ==
    /\ HandlerRan("take_partial_profit")
    /\ inv.args["symbol"].t = "str"
    /\ inv.world.sdk1.ok
    /\ PositionHeld.found
    /\ inv.args["profit_threshold"].t \in {"num", "absent"}

C5_CloseRequestCarriesHundredTimesFraction ==
    (/\ pc = "done" /\ inv.tool = "take_partial_profit"
     /\ inv.args["close_percentage"].t \in {"num", "absent"})
    => \A i \in DOMAIN inv.out.calls :
           inv.out.calls[i].op = "close_position"
           => inv.out.calls[i].pct.n
                  = 100 * Given("close_percentage", Num(DefaultClosePercentage)).n


\* The responses that report a failure: the three categories of the
\* modular handlers, and the legacy tool's two.
ErrorHeads ==
    {H_invalid, H_unexpected, "Error cancelling orders: ",
     "API error canceling orders: ", "An unexpected error occurred: "}

\* C6: cancel_all_orders, when the brokerage's cancel call returns an empty
\* result, answers "no orders to cancel" and no error: in the modular
\* handler and in the legacy server.
C6_NothingToCancelIsSaidSo ==
    (/\ HandlerRan("cancel_all_orders") \/ LegacyRan("cancel_all_orders")
     /\ inv.world.sdk1.ok
     /\ inv.world.n = 0)
    => /\ inv.out.resp.head = "No orders to cancel."
       /\ inv.out.resp.head \notin ErrorHeads

\* A trailing-stop call valid in everything but the letters of trail_type.
TrailingOtherwiseValid ==
    /\ HandlerRan("place_trailing_stop_order")
    /\ inv.args["symbol"].t = "str"
    /\ inv.args["side"].t = "str" /\ Lower(inv.args["side"].s) \in {S_buy, S_sell}
    /\ inv.args["quantity"].t = "num"
    /\ inv.args["trail_type"].t = "str"
    /\ inv.args["trail_amount"].t = "num"
    /\ inv.args["time_in_force"].t \in {"str", "absent"}

\* C7: every request handle_place_trailing_stop_order submits carries
\* exactly one trail field, trail_percent = trail_amount for trail_type
\* "percent" and trail_price = trail_amount for "price", the type read in
\* any letter case; and a valid call of either type is submitted.
C7_TrailingCarriesOneTrailField ==
    /\ HandlerRan("place_trailing_stop_order")
       => \A i \in DOMAIN inv.out.calls :
              LET r == inv.out.calls[i].req
                  tt == Lower(inv.args["trail_type"].s)
              IN  /\ inv.out.calls[i].op = "submit_order"
                  /\ tt \in {S_price, S_percent}
                  /\ tt = S_percent
                         => r.trail_percent = inv.args["trail_amount"]
                            /\ r.trail_price = Absent
                  /\ tt = S_price
                         => r.trail_price = inv.args["trail_amount"]
                            /\ r.trail_percent = Absent
    /\ (TrailingOtherwiseValid
        /\ Lower(inv.args["trail_type"].s) \in {S_price, S_percent})
       => CallsOf("submit_order") = 1

\* C7's case: trail_type "Percent" was submitted with a percentage trail.
C7_Witness ==
    /\ TrailingOtherwiseValid
    /\ inv.args["trail_type"] = Str(<<"P","e","r","c","e","n","t">>)
    /\ CallsOf("submit_order") = 1
    /\ inv.out.calls[1].req.trail_percent = Num(Trail)
    /\ inv.out.calls[1].req.trail_price = Absent

\* C8: whatever the argument mapping (keys missing or None included) and
\* whatever the outcome of each brokerage call, a handler that ran returned
\* one text payload and raised nothing; so a main.py wrapper that had its
\* client handle returned too.
C8_HandlersReturnOnePayload ==
    (pc = "done" /\ inv.via \in Vias /\ client = "ready")
    => inv.out.raised = NoExc /\ inv.out.resp # NoResponse

\* C8's case: a main.py tool whose argument lookup failed (a None symbol
\* has no upper()) answered "Unexpected error: ...".
C8_Witness ==
    /\ HandlerRan("get_stock_quote")
    /\ inv.args["symbol"] = None
    /\ inv.out.raised = NoExc
    /\ inv.out.resp.head = H_unexpected

\* Both credentials are in the environment.
HasCredentials ==
    /\ Truthy(GetenvOr(env, "ALPACA_API_KEY", "API_KEY_ID"))
    /\ Truthy(GetenvOr(env, "ALPACA_SECRET_KEY", "API_SECRET_KEY"))

\* C9: without the API key or the API secret the process does not start:
\* it never serves, and no tool call is answered or failed at call time;
\* from main.py and from alpaca_mcp_server.py alike.
C9_NoCredentialsNoServing ==
    ~HasCredentials => phase # "serving" /\ pc # "done"

OrderTools == SideTools \cup {"place_oco_order"}

OrderApiHeads ==
    {"Error placing market order: ", "Error placing limit order: ",
     "Error placing bracket order: ", "Error placing OCO order: ",
     "Error placing OTO order: ", "Error placing trailing stop order: "}

Submitted == {inv.out.calls[i] : i \in {j \in DOMAIN inv.out.calls : inv.out.calls[j].op = "submit_order"}}

\* C11: every request handle_place_oco_order submits is a SELL limit order
\* at the take-profit price, of order class OCO, with a take-profit leg at
\* take_profit_price and a stop-loss leg at stop_loss_price; the stop-loss
\* leg has a limit price, the given one, exactly when a (non-zero)
\* stop_loss_limit_price is given; a side among the arguments changes nothing.
C11_OcoRequestIsSellLimitWithBothLegs ==
    HandlerRan("place_oco_order") =>
        \A c \in Submitted :
            /\ c.req.side = Str(<<"S","E","L","L">>)
            /\ c.req.kind = "limit"
            /\ c.req.class = "oco"
            /\ c.req.limit_price = inv.args["take_profit_price"]
            /\ c.req.tp_limit = inv.args["take_profit_price"]
            /\ c.req.sl_stop = inv.args["stop_loss_price"]
            /\ c.req.sl_limit = IF Truthy(Given("stop_loss_limit_price", None))
                                THEN inv.args["stop_loss_limit_price"] ELSE None

\* C11's case: the handler was called with side "buy" and a stop-loss limit
\* price, and submitted its request.
C11_Witness ==
    /\ HandlerRan("place_oco_order")
    /\ inv.args["side"] = Str(S_buy)
    /\ inv.args["stop_loss_limit_price"] = Num(StopLossLimit)
    /\ Submitted # {}

\* The time in force the caller chose: the value given (GTC if its uppercase
\* form is "GTC", else DAY), or the intent's default when none is given.
ChosenTimeInForce(tool) ==
    LET given == inv.args["time_in_force"] IN
    IF given = Absent
    THEN IF tool \in {"place_bracket_order", "place_oco_order", "place_oto_order"}
         THEN TIF_GTC ELSE TIF_DAY
    ELSE IF Upper(given.s) = S_GTC THEN TIF_GTC ELSE TIF_DAY

\* C12: a submitted request's time in force is the caller's choice (DAY or
\* GTC in any letter case; DAY for an unrecognized value) when one is given,
\* in each of the six order handlers, and else GTC for Bracket/OCO/OTO and
\* DAY for Market/Limit/TrailingStop.
C12_TimeInForceIsCallersOrDefault ==
    \A tool \in OrderTools :
        HandlerRan(tool) => \A c \in Submitted : c.req.tif = ChosenTimeInForce(tool)

\* The tools whose request may have a limit entry.
LimitEntryTools == {"place_limit_order", "place_bracket_order", "place_oto_order"}

\* The invocation just made asks for a limit entry and is valid in
\* everything but its limit_price: symbol, side and quantity as declared,
\* and the exit legs the intent needs (both for Bracket, one for OTO, at a
\* positive price).
LimitEntryOtherwiseValid(tool) ==
    /\ HandlerRan(tool)
    /\ inv.args["symbol"].t = "str"
    /\ inv.args["side"].t = "str" /\ Lower(inv.args["side"].s) \in {S_buy, S_sell}
    /\ inv.args["quantity"].t = "num"
    /\ inv.args["time_in_force"].t \in {"str", "absent"}
    /\ tool # "place_limit_order" =>
           /\ Given("order_type", Str(S_market)).t = "str"
           /\ Lower(Given("order_type", Str(S_market)).s) = S_limit
    /\ tool = "place_bracket_order" =>
           inv.args["take_profit_price"].t = "num" /\ inv.args["stop_loss_price"].t = "num"
    /\ tool = "place_oto_order" =>
           /\ ExactlyOneLegPresent
           /\ \A k \in {"take_profit_price", "stop_loss_price"} :
                  Present(inv.args[k]) => inv.args[k].t = "num" /\ inv.args[k].n > 0

\* C13: a Limit order, and a Bracket or OTO order with limit entry, is
\* answered "Invalid parameters: ..." without any submit_order call when its
\* limit_price is not given (no key, or None), and is submitted when its
\* limit_price is a positive number.
C13_LimitEntryNeedsLimitPrice ==
    \A tool \in LimitEntryTools :
        LimitEntryOtherwiseValid(tool) =>
            /\ ~Present(inv.args["limit_price"])
                   => inv.out.resp.head = H_invalid /\ CallsOf("submit_order") = 0
            /\ (inv.args["limit_price"].t = "num" /\ inv.args["limit_price"].n > 0)
                   => CallsOf("submit_order") = 1

\* The invocation just made is a Bracket or OCO request valid in everything
\* but its exit legs: symbol and quantity as declared, for Bracket a side
\* and a market entry or a limit entry with its price.
TwoLegOtherwiseValid(tool) ==
    /\ HandlerRan(tool)
    /\ inv.args["symbol"].t = "str"
    /\ inv.args["quantity"].t = "num"
    /\ inv.args["time_in_force"].t \in {"str", "absent"}
    /\ tool = "place_bracket_order" =>
           /\ inv.args["side"].t = "str" /\ Lower(inv.args["side"].s) \in {S_buy, S_sell}
           /\ Given("order_type", Str(S_market)).t = "str"
           /\ Lower(Given("order_type", Str(S_market)).s) \in {S_market, S_limit}
           /\ Lower(Given("order_type", Str(S_market)).s) = S_limit
                  => inv.args["limit_price"].t = "num" /\ inv.args["limit_price"].n > 0

\* An exit leg price is missing: its key is absent or its value is None.
LegMissing ==
    ~Present(inv.args["take_profit_price"]) \/ ~Present(inv.args["stop_loss_price"])

\* C14: a Bracket or OCO request without take_profit_price or without
\* stop_loss_price (no key, or None) is answered "Invalid parameters: ..."
\* and no submit_order call is made for it.
C14_MissingLegFailsValidation ==
    \A tool \in {"place_bracket_order", "place_oco_order"} :
        (TwoLegOtherwiseValid(tool) /\ LegMissing)
        => inv.out.resp.head = H_invalid /\ CallsOf("submit_order") = 0

\* A trail field of a request is not set, or is a positive number.
UnsetOrPositive(v) == ~Present(v) \/ (v.t = "num" /\ v.n > 0)

\* C15: in each of the six order handlers, every request handed to
\* submit_order has a quantity above 0, and a trailing stop's trail (price
\* or percent) is above 0.
C15_NoNonPositiveAmountSubmitted ==
    \A tool \in OrderTools :
        HandlerRan(tool) =>
            \A c \in Submitted :
                /\ c.req.qty.t = "num" /\ c.req.qty.n > 0
                /\ UnsetOrPositive(c.req.trail_price)
                /\ UnsetOrPositive(c.req.trail_percent)

\* A method of AlpacaClient was called directly in the step just made.
GatewayCalled(m) == pc = "done" /\ gw.method = m

\* C16: every AlpacaClient method either returns what the SDK call
\* returned, unchanged, or raises one APIError whose api_error is the
\* exception underneath, which is not itself an APIError of this layer; a
\* failed SDK call is never answered by a returned value.
C16_GatewayReturnsResultOrOneApiError ==
    \A m \in GatewayMethods :
        GatewayCalled(m) =>
            \/ gw.sdk.ok /\ gw.raised = NoExc /\ gw.returned = gw.sdkval
            \/ /\ gw.raised.type = "APIError"
               /\ gw.api_error # NoExc
               /\ gw.api_error.type # "APIError"

\* handle_take_partial_profit found the position, asked the gateway to close
\* part of it, and the brokerage refused the close request.
CloseRefused ==
    /\ HandlerRan("take_partial_profit")
    /\ CallsOf("close_position") = 1
    /\ ~inv.world.sdk2.ok

\* C17: when the brokerage refuses the close request because the symbol has
\* no position (any more), handle_take_partial_profit answers "no position
\* found"; for any other refusal it answers a generic error.
C17_VanishedPositionIsNotFound ==
    CloseRefused =>
        (inv.out.resp.head \in NotFoundResults
            <=> /\ inv.world.sdk2.api
                /\ inv.world.sdk2.err \in {E_position_does_not_exist, E_position_not_found})

\* What an order handler answers when it is called with no argument at all:
\* arguments["symbol"] raises KeyError, an unexpected failure.
UnexpectedReference(tool) ==
    CASE tool = "place_market_order" -> handle_place_market_order(Args(<<>>), SdkOk).resp
      [] tool = "place_limit_order" -> handle_place_limit_order(Args(<<>>), SdkOk).resp
      [] tool = "place_bracket_order" -> handle_place_bracket_order(Args(<<>>), SdkOk).resp
      [] tool = "place_oco_order" -> handle_place_oco_order(Args(<<>>), SdkOk).resp
      [] tool = "place_oto_order" -> handle_place_oto_order(Args(<<>>), SdkOk).resp
      [] tool = "place_trailing_stop_order" ->
             handle_place_trailing_stop_order(Args(<<>>), SdkOk).resp

\* The invocation just made ended in the handler's "except Exception".
FailedUnexpectedly(tool) == HandlerRan(tool) /\ inv.out.resp.head = H_unexpected

\* C18: two invocations of one order handler that both fail unexpectedly get
\* the same response text, whatever the exceptions say: every unexpected
\* failure is answered as the one of the call without arguments is.
C18_UnexpectedFailureIsGeneric ==
    \A tool \in OrderTools :
        FailedUnexpectedly(tool) => inv.out.resp = UnexpectedReference(tool)

\* load_alpaca_config() was called on its own in the step just made.
ConfigCalled == pc = "done" /\ phase = "off"

\* load_alpaca_config() was called and built a configuration.
ConfigLoaded == ConfigCalled /\ cfg.exc = NoExc

\* C19: a configuration load_alpaca_config builds has paper = FALSE exactly
\* when ALPACA_PAPER is set to a value whose lowercase form is not "true";
\* with ALPACA_PAPER unset it has paper = TRUE whatever the base URLs are.
C19_PaperUnlessExplicitlyNotTrue ==
    ConfigLoaded =>
        (cfg.val.paper = FALSE
            <=> /\ env["ALPACA_PAPER"] # None
                /\ Lower(env["ALPACA_PAPER"].s) # <<"t","r","u","e">>)

\* C19's case: ALPACA_PAPER is unset, APCA_API_BASE_URL and ALPACA_BASE_URL
\* name the live API, and the configuration built has paper = TRUE.
C19_Witness ==
    /\ ConfigLoaded
    /\ env["ALPACA_PAPER"] = None
    /\ env["APCA_API_BASE_URL"] = Str(LiveUrl) /\ env["ALPACA_BASE_URL"] = Str(LiveUrl)
    /\ cfg.val.paper = TRUE
    /\ cfg.val.base_url = Str(LiveUrl)

\* The value of a credential given under its two documented names, the
\* ALPACA_* name first; None when it is set (non-empty) under neither.
Documented(alpaca_name, apca_name) ==
    IF Truthy(env[alpaca_name]) THEN env[alpaca_name]
    ELSE IF Truthy(env[apca_name]) THEN env[apca_name]
    ELSE None

\* C20: load_alpaca_config takes the API key from ALPACA_API_KEY or
\* APCA_API_KEY_ID and the secret from ALPACA_SECRET_KEY or
\* APCA_API_SECRET_KEY, the ALPACA_* name first, and raises
\* InvalidConfigurationError exactly when the key or the secret is set
\* (non-empty) under neither of its two names.
C20_CredentialsUnderEitherName ==
    ConfigCalled =>
        LET key == Documented("ALPACA_API_KEY", "APCA_API_KEY_ID")
            secret == Documented("ALPACA_SECRET_KEY", "APCA_API_SECRET_KEY")
        IN  IF key = None \/ secret = None
            THEN cfg.exc.type = "InvalidConfigurationError"
            ELSE /\ cfg.exc = NoExc
                 /\ cfg.val.api_key = key
                 /\ cfg.val.secret_key = secret

\* Task t is past get_alpaca_client(), which returned it a client.
GotClient(t) == loop.task[t].pc \in {"body", "done"} /\ loop.task[t].raised = NoExc

\* get_alpaca_client() raised in the step from the wrapper of task t.
InitFailed(t) == loop.task[t].pc = "info" /\ loop'.task[t].pc = "error"

\* C21: over every interleaving of invocations in one process, at most one
\* AlpacaClient is ever constructed by get_alpaca_client, every call that
\* returns hands out that one instance, and the handle once set keeps it; a
\* call whose initialization fails raises and leaves the handle unset, and a
\* call that finds the handle unset initializes again: it returns only with
\* a client it built in that call.
C21_OneClientPerProcess ==
    /\ [](/\ loop.built <= 1
          /\ (loop.handle = 0) = (client = "none")
          /\ \A t \in Tasks :
                 /\ GotClient(t) => loop.task[t].client = loop.handle /\ loop.handle # 0
                 /\ loop.task[t].raised # NoExc => loop.task[t].client = 0)
    /\ [][\A t \in Tasks :
              /\ InitFailed(t) => /\ loop'.task[t].raised # NoExc
                                  /\ client' = "none" /\ loop'.handle = 0
                                  /\ loop'.built = loop.built
              /\ (loop.task[t].pc = "info" /\ client = "none" /\ ~InitFailed(t)
                  /\ loop'.task[t] # loop.task[t])
                     => loop'.built = loop.built + 1 /\ loop'.task[t].client = loop'.built
              /\ loop.handle # 0 => loop'.handle = loop.handle]_vars

\* C21's case: the initialization failed in one invocation, a later
\* invocation built the client, and another one after it got the same client.
C21_Witness ==
    /\ loop.built = 1
    /\ \E t \in Tasks, u \in Tasks :
           /\ loop.task[t].raised.type = "BrokerConnectionError"
           /\ GotClient(u) /\ loop.task[u].client = 1
           /\ loop.task[u].inv > loop.task[t].inv + 1

\* C22: no brokerage call is retried: one invocation makes at most one
\* submit_order call and at most one close_position call, makes no call of
\* the brokerage twice, and makes no further call after a call that failed;
\* in every modular handler and legacy tool.
C22_NoBrokerageCallRetried ==
    (pc = "done" /\ inv.tool # "none") =>
        /\ CallsOf("submit_order") <= 1
        /\ CallsOf("close_position") <= 1
        /\ \A i \in DOMAIN inv.out.calls :
               /\ ~inv.out.calls[i].ok => i = Len(inv.out.calls)
               /\ \A j \in DOMAIN inv.out.calls :
                      inv.out.calls[i].op = inv.out.calls[j].op => i = j

\* C22's case: take_partial_profit's close request failed; the invocation
\* made that one request, nothing after it, and answered the error.
C22_Witness ==
    /\ CloseRefused
    /\ Len(inv.out.calls) = 2
    /\ inv.out.calls[2].op = "close_position" /\ ~inv.out.calls[2].ok
    /\ inv.out.resp.head = "Error taking partial profit: "

\* handle_get_orders ran on the orders the brokerage returned.
OrdersListed ==
    /\ HandlerRan("get_orders")
    /\ inv.world.sdk1.ok
    /\ inv.args["status"].t \in {"str", "absent"}

\* C23: handle_get_orders answers the structured list, with every order the
\* brokerage returned in it, and no error response, whichever of the
\* nullable fields (qty among them) the orders lack.
C23_GetOrdersToleratesMissingFields ==
    OrdersListed =>
        /\ inv.out.resp.head = "orders"
        /\ Len(inv.out.resp.detail) = Len(inv.world.orders)

\* The tools that take a symbol.
SymbolTools == OrderTools \cup {"take_partial_profit", "get_stock_quote", "get_stock_bars"}

\* The brokerage calls the handler of tool makes for arguments a in world w.
HandlerCalls(tool, a, w) ==
    CASE tool = "place_market_order" -> handle_place_market_order(a, w.sdk1).calls
      [] tool = "place_limit_order" -> handle_place_limit_order(a, w.sdk1).calls
      [] tool = "place_bracket_order" -> handle_place_bracket_order(a, w.sdk1).calls
      [] tool = "place_oco_order" -> handle_place_oco_order(a, w.sdk1).calls
      [] tool = "place_oto_order" -> handle_place_oto_order(a, w.sdk1).calls
      [] tool = "place_trailing_stop_order" ->
             handle_place_trailing_stop_order(a, w.sdk1).calls
      [] tool = "take_partial_profit" ->
             handle_take_partial_profit(a, w.sdk1, w.positions, w.sdk2).calls
      [] tool = "get_stock_quote" -> handle_get_stock_quote(a, w.sdk1, w.quote).calls
      [] tool = "get_stock_bars" -> handle_get_stock_bars(a, w.sdk1, w.bars).calls

\* The uppercase form of the symbol the caller gave.
UpperSymbol == Str(Upper(inv.args["symbol"].s))

\* C24: every brokerage call of a modular handler that names a symbol
\* (quote, bars, order submission, close_position) names the uppercase form
\* of the caller's symbol; take_partial_profit closes only when a position
\* of that uppercase symbol is reported; and the calls are those of the same
\* invocation made with the symbol in uppercase.
C24_SymbolIsUppercased ==
    \A tool \in SymbolTools :
        (HandlerRan(tool) /\ inv.args["symbol"].t = "str") =>
            /\ \A i \in DOMAIN inv.out.calls :
                   /\ inv.out.calls[i].symbol # Absent => inv.out.calls[i].symbol = UpperSymbol
                   /\ inv.out.calls[i].op = "submit_order"
                          => inv.out.calls[i].req.symbol = UpperSymbol
            /\ CallsOf("close_position") > 0 => PositionHeld.found
            /\ inv.out.calls = HandlerCalls(tool, [inv.args EXCEPT !["symbol"] = UpperSymbol],
                                            inv.world)

\* C24's case: take_partial_profit for "ab" closed the position reported
\* under "AB".
C24_Witness ==
    /\ HandlerRan("take_partial_profit")
    /\ inv.args["symbol"] = Str(Sym_ab)
    /\ PositionHeld.found /\ PositionHeld.symbol = Sym_AB
    /\ CallsOf("close_position") = 1
    /\ inv.out.calls[2].symbol = Str(Sym_AB)

\* close_all_positions ran with a boolean cancel_orders (True when omitted).
CloseAllRan(cancel_orders) ==
    /\ HandlerRan("close_all_positions")
    /\ Given("cancel_orders", Bool(TRUE)) = Bool(cancel_orders)

\* C25: AlpacaClient.close_all_positions(True) asks the brokerage to cancel
\* the orders first and to close the positions after that, and when the
\* cancel request fails it never makes the close request and raises one
\* APIError; close_all_positions(False) makes the close request alone, with
\* its cancel_orders flag False.
C25_CancelPrecedesCloseAll ==
    /\ CloseAllRan(TRUE) =>
           /\ inv.out.calls # <<>> /\ inv.out.calls[1].op = "cancel_orders"
           /\ IF inv.world.sdk1.ok
              THEN /\ Len(inv.out.calls) = 2
                   /\ inv.out.calls[2].op = "close_all_positions"
              ELSE /\ Len(inv.out.calls) = 1
                   /\ inv.out.resp = Response("Error closing positions: ",
                                               <<"Failed to close all positions: ">>
                                                   \o inv.world.sdk1.err)
    /\ CloseAllRan(FALSE) =>
           /\ Len(inv.out.calls) = 1
           /\ inv.out.calls[1].op = "close_all_positions"
           /\ inv.out.calls[1].pct = Bool(FALSE)

\* C25's case: the cancel request failed and no close request followed.
C25_Witness ==
    /\ CloseAllRan(TRUE)
    /\ ~inv.world.sdk1.ok
    /\ CallsOf("cancel_orders") = 1 /\ CallsOf("close_all_positions") = 0

\* C26: every request handle_place_oto_order submits carries exactly one
\* exit leg, the one the caller supplied: a take-profit leg at
\* take_profit_price exactly when take_profit_price is supplied, a stop-loss
\* leg at stop_loss_price exactly when stop_loss_price is supplied, and the
\* stop-loss leg has a limit price, the supplied one, exactly when
\* stop_loss_limit_price is supplied.
C26_OtoCarriesTheSuppliedLeg ==
    HandlerRan("place_oto_order") =>
        \A c \in Submitted :
            LET tp == Given("take_profit_price", None)
                sl == Given("stop_loss_price", None)
                sll == Given("stop_loss_limit_price", None)
                hasTp == c.req.tp_limit # Absent
                hasSl == c.req.sl_stop # Absent
            IN  /\ hasTp # hasSl
                /\ hasTp <=> Present(tp)
                /\ hasSl <=> Present(sl)
                /\ hasTp => c.req.tp_limit = tp
                /\ hasSl => /\ c.req.sl_stop = sl
                            /\ Present(c.req.sl_limit) <=> Present(sll)
                            /\ Present(sll) => c.req.sl_limit = sll

\* handle_get_stock_bars ran with a number of days (5 when omitted) and the
\* brokerage returned its bars.
BarsListed ==
    /\ HandlerRan("get_stock_bars")
    /\ inv.args["symbol"].t = "str"
    /\ inv.world.sdk1.ok
    /\ Given("days", Num(DefaultDays)).t = "num"

\* The bars in the response of get_stock_bars.
BarsReturned == IF inv.out.resp.head = "bars" THEN inv.out.resp.detail ELSE <<>>

\* C27: for every days and every bar list of length n the client returns,
\* the response of handle_get_stock_bars holds the last min(n, days) bars
\* in their order, so no more bars than days (days = 0 included).
C27_BarsLimitedToDays ==
    BarsListed =>
        LET n == Len(inv.world.bars)
            days == Given("days", Num(DefaultDays)).n
            k == IF n < days THEN n ELSE days
        IN  /\ inv.out.resp.head \in {"bars", "No bar data found for symbol "}
            /\ BarsReturned = SubSeq(inv.world.bars, n - k + 1, n)
            /\ Len(BarsReturned) <= days

\* The closes a run of take_partial_profit requested of the brokerage.
Closes(calls) == Cardinality({i \in DOMAIN calls : calls[i].op = "close_position"})

\* The position take_partial_profit found for its symbol in the invocation
\* just made: the legacy tool asks for it by the symbol as given, the
\* modular handler looks for the uppercased symbol among all positions.
SamePosition == IF inv.via = "legacy" THEN inv.world.positions[1] ELSE PositionHeld

\* take_partial_profit ran, in either server, with a threshold and a
\* fraction that are numbers, and found an open position whose
\* unrealized_plpc the brokerage reported.
VariantRanOnPosition ==
    /\ HandlerRan("take_partial_profit") \/ LegacyRan("take_partial_profit")
    /\ inv.args["symbol"].t = "str"
    /\ inv.args["profit_threshold"].t \in {"num", "absent"}
    /\ inv.args["close_percentage"].t \in {"num", "absent"}
    /\ inv.world.sdk1.ok
    /\ SamePosition.found
    /\ SamePosition.unrealized_plpc.t = "num"

\* The modular handler and the legacy tool run on the position, threshold,
\* fraction and brokerage outcomes of the invocation just made.
ModularOnSame ==
    LET symbol == Str(Upper(inv.args["symbol"].s)) IN
    handle_take_partial_profit(
        [inv.args EXCEPT !["symbol"] = symbol], inv.world.sdk1,
        <<Position(symbol.s, SamePosition.unrealized_plpc)>>, inv.world.sdk2)
LegacyOnSame ==
    legacy_take_partial_profit(
        inv.args["symbol"], Given("profit_threshold", Num(DefaultProfitThreshold)),
        Given("close_percentage", Num(DefaultClosePercentage)), inv.world.sdk1,
        Position(inv.args["symbol"].s, SamePosition.unrealized_plpc), inv.world.sdk2)

C29_InvocationCallsNotInterleaved ==
    /\ \A i \in DOMAIN loop.log : \A k \in DOMAIN loop.log :
           (i < k /\ loop.log[i].inv = loop.log[k].inv)
           => \A j \in i..k : loop.log[j].inv = loop.log[i].inv
    /\ \A i \in DOMAIN loop.log :
           (loop.log[i].op = "close_position")
           => /\ i > 1
              /\ loop.log[i - 1] = [inv |-> loop.log[i].inv, op |-> "get_all_positions"]
    /\ \A t \in Tasks : loop.task[t].pc \in {"idle", "info", "error", "done"}

\* C29's case: an invocation of take_partial_profit that was suspended at
\* ctx.info while a later invocation made its calls, then made its lookup
\* and its close_position request one after the other.
C29_Witness ==
    \E i \in DOMAIN loop.log :
        /\ loop.log[i].op = "close_position"
        /\ i > 1
        /\ loop.log[i - 1] = [inv |-> loop.log[i].inv, op |-> "get_all_positions"]
        /\ \E j \in 1..(i - 2) : loop.log[j].inv > loop.log[i].inv

\* The tools whose order has an entry leg of a type the caller chooses.
EntryTools == {"place_bracket_order", "place_oto_order"}

\* order_type as the handler compares it: "market" when omitted, lowercased.
EntryType == Lower(Given("order_type", Str(S_market)).s)

\* The invocation just made, had its order_type been "market".
AsMarketEntry(tool) ==
    LET a == [inv.args EXCEPT !["order_type"] = Str(S_market)] IN
    IF tool = "place_bracket_order" THEN handle_place_bracket_order(a, inv.world.sdk1)
    ELSE handle_place_oto_order(a, inv.world.sdk1)

\* C30: a Bracket or OTO request is submitted with a limit entry if and only
\* if its order_type, compared without regard to letter case, is "limit";
\* with any other order_type ("stop" included) the request is treated as
\* with "market": no validation failure comes of the order_type, and what is
\* submitted is a market entry without limit_price, whether or not the
\* caller supplied one.
C30_LimitEntryIffOrderTypeLimit ==
    \A tool \in EntryTools :
        (HandlerRan(tool) /\ Given("order_type", Str(S_market)).t = "str") =>
            /\ \A c \in Submitted :
                   /\ c.req.kind \in {"limit", "market"}
                   /\ c.req.kind = "limit" <=> EntryType = S_limit
                   /\ c.req.kind = "limit" => c.req.limit_price = inv.args["limit_price"]
                   /\ c.req.kind = "market" => c.req.limit_price = Absent
            /\ EntryType # S_limit => inv.out = AsMarketEntry(tool)

\* C30's case: a Bracket request with order_type "stop" and a limit_price
\* was submitted as a market entry without the price.
C30_Witness ==
    /\ HandlerRan("place_bracket_order")
    /\ inv.args["order_type"] = Str(<<"s","t","o","p">>)
    /\ inv.args["limit_price"] = Num(Price)
    /\ inv.out.resp.head = "Bracket order placed successfully:"
    /\ Cardinality(Submitted) = 1
    /\ \A c \in Submitted : c.req.kind = "market" /\ c.req.limit_price = Absent

====
